---- MODULE Spec2Model ----
(***************************************************************************)
(* A model of the customSounds audio-asset subsystem (src/audioStore.ts):  *)
(* the two persisted tables behind the DataStore keys, the storage         *)
(* migration, the in-memory data-URI cache and the override resolver.      *)
(*                                                                         *)
(* Abstractions.  The bytes of a file are a content tag plus a byte        *)
(* length; SHA-256 is taken to be collision free, so a digest is           *)
(* determined by the content tag.  A data URI is its MIME type, the        *)
(* content it encodes and its exact length in characters.  A file name is  *)
(* the sequence of its dot-separated parts.  A value kept under a          *)
(* DataStore key is <<>> when the key was never set and <<t>> when the     *)
(* key holds the table t.                                                  *)
(***************************************************************************)
EXTENDS Integers, Sequences, FiniteSets, TLC

VARIABLES
    audioStore,         \* DataStore value under STORAGE_KEY
    metadataStore,      \* DataStore value under METADATA_KEY
    maxFileSizeMB,      \* module variable of the asset store
    maxCacheSizeBytes,  \* module variable of the plugin
    dataUriCache,       \* Map<string, string> in insertion order: Seq of [key, value]
    currentCacheSize,   \* size counter of the cache
    settings,           \* settings.store: the override slot of every sound event
    recency,            \* history: ids in the order of their last use by the cache API
    ret,                \* history: the last completed operation, its input and outcome
    io                  \* history: the DataStore calls the last operation made, in order

vars == <<audioStore, metadataStore, maxFileSizeMB, maxCacheSizeBytes,
          dataUriCache, currentCacheSize, settings, recency, ret, io>>

storeVars == <<audioStore, metadataStore>>
cacheVars == <<dataUriCache, currentCacheSize, recency>>

-----------------------------------------------------------------------------
(* Bounds of the model *)

\* longest batch handed to saveAudioFiles
MaxBatch == 2

-----------------------------------------------------------------------------
(* Program constants *)

MiB == 1024 * 1024

DEFAULT_MAX_FILE_SIZE_MB == 15

\* values of fileSizeOptions
FileSizeOptions == {5, 15, 30, 50, 100}

MIN_CACHE_SIZE_MB_CAP == 5

MAX_CACHE_SIZE_MB_CAP == 500

MAX_FILES_CACHED_AT_MAX_SIZE == 5

\* BASE64_OVERHEAD = 1.37, kept as hundredths
BASE64_OVERHEAD_X100 == 137

-----------------------------------------------------------------------------
(* DataStore values and tables *)

Absent == <<>>

Present(t) == <<t>>

EmptyTable == [k \in {} |-> k]

\* `(await get(KEY)) ?? {}`
Rows(v) == IF v = Absent THEN EmptyTable ELSE v[1]

Keys(v) == DOMAIN Rows(v)

\* `table[k] = row`
Put(t, k, row) == [x \in (DOMAIN t) \cup {k} |-> IF x = k THEN row ELSE t[x]]

\* `delete table[k]`
Remove(t, k) == [x \in (DOMAIN t) \ {k} |-> t[x]]

-----------------------------------------------------------------------------
(* Files *)

Buffer(tag, n) == [bytes |-> tag, byteLength |-> n]

File(name, type, buffer, readable) ==
    [name |-> name, type |-> type, size |-> buffer.byteLength,
     buffer |-> buffer, readable |-> readable]

\* the files a user uploads in the model: two files with the same bytes under
\* different names and types, one file exactly at the smallest size limit, one
\* a byte above it, and one whose bytes cannot be read
Files ==
    { File(<<"a", "mp3">>, "audio/mpeg", Buffer(1, 12 * MiB), TRUE),
      File(<<"b", "OGG">>, "application/octet-stream", Buffer(1, 12 * MiB), TRUE),
      File(<<"c", "wav">>, "", Buffer(2, 5 * MiB), TRUE),
      File(<<"d", "flac">>, "audio/flac", Buffer(3, 5 * MiB + 1), TRUE),
      File(<<"e", "mp3">>, "audio/mpeg", Buffer(4, 7), FALSE) }

\* String.prototype.toLowerCase on the extensions of the model
toLowerCase(s) ==
    CASE s = "OGG" -> "ogg"
      [] s = "MP3" -> "mp3"
      [] OTHER -> s

\* crypto.subtle.digest("SHA-256", buffer) rendered as 64 hex characters
getBufferHashString(buffer) == [format |-> "sha256-hex", digest |-> buffer.bytes]

\* the MIME type chosen by generateDataURI
mimeTypeOf(type, name) ==
    LET mimeType == IF type # "" THEN type ELSE "audio/mpeg"
    IN  IF mimeType = "application/octet-stream" /\ name # <<>>
        THEN LET extension == toLowerCase(name[Len(name)])
             IN  CASE extension = "ogg" -> "audio/ogg"
                   [] extension = "mp3" -> "audio/mpeg"
                   [] extension = "wav" -> "audio/wav"
                   [] extension = "m4a" -> "audio/mp4"
                   [] extension = "mp4" -> "audio/mp4"
                   [] extension = "flac" -> "audio/flac"
                   [] extension = "aac" -> "audio/aac"
                   [] extension = "webm" -> "audio/webm"
                   [] extension = "wma" -> "audio/x-ms-wma"
                   [] OTHER -> "audio/mpeg"
        ELSE mimeType

\* FileReader.readAsDataURL: "data:" + mime + ";base64," + base64 of the bytes
generateDataURI(buffer, type, name) ==
    LET mimeType == mimeTypeOf(type, name)
    IN  [mimeType |-> mimeType,
         base64 |-> buffer.bytes,
         length |-> Len("data:") + Len(mimeType) + Len(";base64,")
                    + 4 * ((buffer.byteLength + 2) \div 3)]

TooLarge == [ok |-> FALSE, error |-> "File too large"]

ReadFailed == [ok |-> FALSE, error |-> "NotReadableError"]

\* the size check dropped: a mutant of processAudioFile
processAudioFileNoLimit(file, maxMB) ==
    IF ~file.readable
    THEN ReadFailed
    ELSE LET id == getBufferHashString(file.buffer)
             dataUri == generateDataURI(file.buffer, file.type, file.name)
         IN  [ok |-> TRUE, id |-> id,
              audioData |-> [id |-> id, name |-> file.name, type |-> file.type,
                             dataUri |-> dataUri],
              metadata |-> [id |-> id, name |-> file.name, type |-> file.type,
                            size |-> dataUri.length]]

\* the id drawn per file instead of per content: a mutant of processAudioFile
processAudioFileByName(file, maxMB) ==
    IF file.size > maxMB * 1024 * 1024
    THEN TooLarge
    ELSE IF ~file.readable
    THEN ReadFailed
    ELSE LET id == [format |-> "sha256-hex", digest |-> file.name]
             dataUri == generateDataURI(file.buffer, file.type, file.name)
         IN  [ok |-> TRUE, id |-> id,
              audioData |-> [id |-> id, name |-> file.name, type |-> file.type,
                             dataUri |-> dataUri],
              metadata |-> [id |-> id, name |-> file.name, type |-> file.type,
                            size |-> dataUri.length]]

\* processAudioFile: throws (ok = FALSE) or returns [id, audioData, metadata]
processAudioFile(file, maxMB) ==
    IF file.size > maxMB * 1024 * 1024
    THEN TooLarge
    ELSE IF ~file.readable
    THEN ReadFailed
    ELSE LET id == getBufferHashString(file.buffer)
             dataUri == generateDataURI(file.buffer, file.type, file.name)
         IN  [ok |-> TRUE, id |-> id,
              audioData |-> [id |-> id, name |-> file.name, type |-> file.type,
                             dataUri |-> dataUri],
              metadata |-> [id |-> id, name |-> file.name, type |-> file.type,
                            size |-> dataUri.length]]

\* what a caller of a save sees for one file: the id or the error
Outcome(r) == IF r.ok THEN [ok |-> TRUE, id |-> r.id] ELSE r

FileIds == {getBufferHashString(f.buffer) : f \in Files}

-----------------------------------------------------------------------------
(* Cache capacity *)

\* Math.round of the non-negative quotient n / d
RoundDiv(n, d) == (2 * n + d) \div (2 * d)

Min(a, b) == IF a < b THEN a ELSE b

Max(a, b) == IF a > b THEN a ELSE b

\* updateCacheLimit: the new value of maxCacheSizeBytes
updateCacheLimit(sizeMB) ==
    LET calculatedSize ==
            RoundDiv(sizeMB * BASE64_OVERHEAD_X100 * MAX_FILES_CACHED_AT_MAX_SIZE, 100)
    IN  Min(Max(calculatedSize, MIN_CACHE_SIZE_MB_CAP), MAX_CACHE_SIZE_MB_CAP)
        * 1024 * 1024

-----------------------------------------------------------------------------
(* History of the last operation *)

NoOp == [op |-> "none", seq |-> 0]

Done(op, arg, value) ==
    [op |-> op, arg |-> arg, value |-> value, seq |-> 1 - ret.seq]

STORAGE_KEY == "ScattrdCustomSounds"

METADATA_KEY == "ScattrdCustomSounds_Metadata"

\* a call of DataStore.get and of DataStore.set
Get(key) == [call |-> "get", key |-> key]

Set(key) == [call |-> "set", key |-> key]

-----------------------------------------------------------------------------
(* Asset store operations, each run to completion *)

\* a save whose metadata row records the size of the raw bytes: a mutant of
\* SaveAudioFile
SaveAudioFileByteSize(file) ==
    LET r == processAudioFile(file, maxFileSizeMB)
    IN  /\ IF r.ok
           THEN /\ audioStore' = Present(Put(Rows(audioStore), r.id, r.audioData))
                /\ metadataStore' = Present(Put(Rows(metadataStore), r.id,
                                                [r.metadata EXCEPT !.size = file.size]))
           ELSE UNCHANGED storeVars
        /\ ret' = Done("saveAudioFile", file, Outcome(r))
        /\ io' = IF r.ok
                 THEN <<Get(STORAGE_KEY), Set(STORAGE_KEY),
                        Get(METADATA_KEY), Set(METADATA_KEY)>>
                 ELSE <<>>
        /\ UNCHANGED <<maxFileSizeMB, maxCacheSizeBytes, cacheVars, settings>>

\* saveAudioFile(file)
SaveAudioFile(file) ==
    LET r == processAudioFile(file, maxFileSizeMB)
    IN  /\ IF r.ok
           THEN /\ audioStore' = Present(Put(Rows(audioStore), r.id, r.audioData))
                /\ metadataStore' = Present(Put(Rows(metadataStore), r.id, r.metadata))
           ELSE UNCHANGED storeVars
        /\ ret' = Done("saveAudioFile", file, Outcome(r))
        /\ io' = IF r.ok
                 THEN <<Get(STORAGE_KEY), Set(STORAGE_KEY),
                        Get(METADATA_KEY), Set(METADATA_KEY)>>
                 ELSE <<>>
        /\ UNCHANGED <<maxFileSizeMB, maxCacheSizeBytes, cacheVars, settings>>

\* the loop of saveAudioFiles over files[i..], on the in-memory copies
RECURSIVE BatchLoopAbort(_, _, _, _, _)
\* the batch stopped at the first failing file: a mutant of BatchLoop
BatchLoopAbort(files, i, audio, metadata, results) ==
    IF i > Len(files)
    THEN [audio |-> audio, metadata |-> metadata, results |-> results]
    ELSE LET r == processAudioFile(files[i], maxFileSizeMB)
         IN  IF r.ok
             THEN BatchLoopAbort(files, i + 1, Put(audio, r.id, r.audioData),
                                 Put(metadata, r.id, r.metadata),
                                 Append(results, Outcome(r)))
             ELSE [audio |-> audio, metadata |-> metadata,
                   results |-> Append(results, Outcome(r))]

RECURSIVE BatchLoopIdsOnly(_, _, _, _, _)
\* failures left out of the results: a mutant of BatchLoop
BatchLoopIdsOnly(files, i, audio, metadata, results) ==
    IF i > Len(files)
    THEN [audio |-> audio, metadata |-> metadata, results |-> results]
    ELSE LET r == processAudioFile(files[i], maxFileSizeMB)
         IN  IF r.ok
             THEN BatchLoopIdsOnly(files, i + 1, Put(audio, r.id, r.audioData),
                                   Put(metadata, r.id, r.metadata),
                                   Append(results, Outcome(r)))
             ELSE BatchLoopIdsOnly(files, i + 1, audio, metadata, results)

RECURSIVE BatchLoop(_, _, _, _, _)
BatchLoop(files, i, audio, metadata, results) ==
    IF i > Len(files)
    THEN [audio |-> audio, metadata |-> metadata, results |-> results]
    ELSE LET r == processAudioFile(files[i], maxFileSizeMB)
         IN  IF r.ok
             THEN BatchLoop(files, i + 1, Put(audio, r.id, r.audioData),
                            Put(metadata, r.id, r.metadata),
                            Append(results, Outcome(r)))
             ELSE BatchLoop(files, i + 1, audio, metadata,
                            Append(results, Outcome(r)))

\* the batch saved by one saveAudioFile call per file, each with its own
\* round trip to both tables: a mutant of SaveAudioFiles
SaveAudioFilesSequential(files) ==
    LET b == BatchLoop(files, 1, Rows(audioStore), Rows(metadataStore), <<>>)
        saved == Cardinality({i \in 1..Len(b.results) : b.results[i].ok})
        round == <<Get(STORAGE_KEY), Set(STORAGE_KEY),
                   Get(METADATA_KEY), Set(METADATA_KEY)>>
    IN  /\ audioStore' = IF saved > 0 THEN Present(b.audio) ELSE audioStore
        /\ metadataStore' = IF saved > 0 THEN Present(b.metadata) ELSE metadataStore
        /\ ret' = Done("saveAudioFiles", files, b.results)
        /\ io' = [i \in 1..(4 * saved) |-> round[((i - 1) % 4) + 1]]
        /\ UNCHANGED <<maxFileSizeMB, maxCacheSizeBytes, cacheVars, settings>>

\* saveAudioFiles(files)
SaveAudioFiles(files) ==
    LET b == BatchLoop(files, 1, Rows(audioStore), Rows(metadataStore), <<>>)
    IN  /\ audioStore' = Present(b.audio)
        /\ metadataStore' = Present(b.metadata)
        /\ ret' = Done("saveAudioFiles", files, b.results)
        /\ io' = <<Get(STORAGE_KEY), Get(METADATA_KEY),
                   Set(STORAGE_KEY), Set(METADATA_KEY)>>
        /\ UNCHANGED <<maxFileSizeMB, maxCacheSizeBytes, cacheVars, settings>>

\* a delete that forgets the metadata table: a mutant of DeleteAudio
DeleteAudioBlobOnly(id) ==
    /\ audioStore' = IF id \in Keys(audioStore)
                     THEN Present(Remove(Rows(audioStore), id))
                     ELSE audioStore
    /\ ret' = Done("deleteAudio", id, [ok |-> TRUE])
    /\ io' = <<Get(STORAGE_KEY)>>
             \o (IF id \in Keys(audioStore) THEN <<Set(STORAGE_KEY)>> ELSE <<>>)
    /\ UNCHANGED <<metadataStore, maxFileSizeMB, maxCacheSizeBytes, cacheVars,
                   settings>>

\* deleteAudio(id)
DeleteAudio(id) ==
    /\ audioStore' = IF id \in Keys(audioStore)
                     THEN Present(Remove(Rows(audioStore), id))
                     ELSE audioStore
    /\ metadataStore' = IF id \in Keys(metadataStore)
                        THEN Present(Remove(Rows(metadataStore), id))
                        ELSE metadataStore
    /\ ret' = Done("deleteAudio", id, [ok |-> TRUE])
    /\ io' = <<Get(STORAGE_KEY)>>
             \o (IF id \in Keys(audioStore) THEN <<Set(STORAGE_KEY)>> ELSE <<>>)
             \o <<Get(METADATA_KEY)>>
             \o (IF id \in Keys(metadataStore) THEN <<Set(METADATA_KEY)>> ELSE <<>>)
    /\ UNCHANGED <<maxFileSizeMB, maxCacheSizeBytes, cacheVars, settings>>

\* clearStore()
ClearStore ==
    /\ audioStore' = Present(EmptyTable)
    /\ metadataStore' = Present(EmptyTable)
    /\ ret' = Done("clearStore", <<>>, [ok |-> TRUE])
    /\ io' = <<Set(STORAGE_KEY), Set(METADATA_KEY)>>
    /\ UNCHANGED <<maxFileSizeMB, maxCacheSizeBytes, cacheVars, settings>>

\* a change of the size setting that leaves the cache capacity alone: a mutant
\* of OnChangeMaxFileSize
OnChangeMaxFileSizeKeepsLimit(value) ==
    /\ value # maxFileSizeMB
    /\ maxFileSizeMB' = value
    /\ ret' = Done("maxFileSize.onChange", value, [ok |-> TRUE])
    /\ io' = <<>>
    /\ UNCHANGED <<storeVars, cacheVars, settings, maxCacheSizeBytes>>

\* settings.maxFileSize.onChange(value)
OnChangeMaxFileSize(value) ==
    /\ value # maxFileSizeMB
    /\ maxFileSizeMB' = value
    /\ maxCacheSizeBytes' = updateCacheLimit(value)
    /\ ret' = Done("maxFileSize.onChange", value, [ok |-> TRUE])
    /\ io' = <<>>
    /\ UNCHANGED <<storeVars, cacheVars, settings>>

Batches == UNION {[1..n -> Files] : n \in 0..MaxBatch}

NoSettings == <<>>

\* the plugin after a start() with the default settings on an empty DataStore
InitStore ==
    /\ audioStore = Absent
    /\ metadataStore = Absent
    /\ maxFileSizeMB = DEFAULT_MAX_FILE_SIZE_MB
    /\ maxCacheSizeBytes = updateCacheLimit(DEFAULT_MAX_FILE_SIZE_MB)
    /\ dataUriCache = <<>>
    /\ currentCacheSize = 0
    /\ settings = NoSettings
    /\ recency = <<>>
    /\ ret = NoOp
    /\ io = <<>>

NextStore ==
    \/ \E file \in Files : SaveAudioFile(file)
    \/ \E files \in Batches : SaveAudioFiles(files)
    \/ \E id \in FileIds : DeleteAudio(id)
    \/ ClearStore
    \/ \E value \in FileSizeOptions : OnChangeMaxFileSize(value)

SpecStore == InitStore /\ [][NextStore]_vars

-----------------------------------------------------------------------------
(* Saves, one DataStore write at a time *)

\* the positions of a save between its two writes
BetweenWrites == {"saveAudioFile, blob written", "saveAudioFiles, blob written"}

\* a save that writes its metadata row first: a mutant of
\* SaveAudioFileWriteBlob
SaveAudioFileWriteMetadataFirst(file) ==
    LET r == processAudioFile(file, maxFileSizeMB)
    IN  /\ ret.op \notin BetweenWrites
        /\ r.ok
        /\ metadataStore' = Present(Put(Rows(metadataStore), r.id, r.metadata))
        /\ ret' = Done("saveAudioFile, blob written", file,
                       [id |-> r.id, metadata |-> r.metadata])
        /\ io' = <<Get(METADATA_KEY), Set(METADATA_KEY)>>
        /\ UNCHANGED <<audioStore, maxFileSizeMB, maxCacheSizeBytes, cacheVars,
                       settings>>

\* saveAudioFile(file) up to the end of setAudioStore
SaveAudioFileWriteBlob(file) ==
    LET r == processAudioFile(file, maxFileSizeMB)
    IN  /\ ret.op \notin BetweenWrites
        /\ r.ok
        /\ audioStore' = Present(Put(Rows(audioStore), r.id, r.audioData))
        /\ ret' = Done("saveAudioFile, blob written", file,
                       [id |-> r.id, metadata |-> r.metadata])
        /\ io' = <<Get(STORAGE_KEY), Set(STORAGE_KEY)>>
        /\ UNCHANGED <<metadataStore, maxFileSizeMB, maxCacheSizeBytes, cacheVars,
                       settings>>

\* the rest of saveAudioFile(file): the metadata table is read, the row is
\* assigned and the table is written
SaveAudioFileWriteMetadata ==
    /\ ret.op = "saveAudioFile, blob written"
    /\ metadataStore' = Present(Put(Rows(metadataStore), ret.value.id,
                                    ret.value.metadata))
    /\ ret' = Done("saveAudioFile", ret.arg, [ok |-> TRUE, id |-> ret.value.id])
    /\ io' = io \o <<Get(METADATA_KEY), Set(METADATA_KEY)>>
    /\ UNCHANGED <<audioStore, maxFileSizeMB, maxCacheSizeBytes, cacheVars,
                   settings>>

\* saveAudioFiles(files) up to the end of setAudioStore
SaveAudioFilesWriteBlob(files) ==
    LET b == BatchLoop(files, 1, Rows(audioStore), Rows(metadataStore), <<>>)
    IN  /\ ret.op \notin BetweenWrites
        /\ audioStore' = Present(b.audio)
        /\ ret' = Done("saveAudioFiles, blob written", files,
                       [metadata |-> b.metadata, results |-> b.results])
        /\ io' = <<Get(STORAGE_KEY), Get(METADATA_KEY), Set(STORAGE_KEY)>>
        /\ UNCHANGED <<metadataStore, maxFileSizeMB, maxCacheSizeBytes, cacheVars,
                       settings>>

\* the rest of saveAudioFiles(files): the in-memory metadata table is written
SaveAudioFilesWriteMetadata ==
    /\ ret.op = "saveAudioFiles, blob written"
    /\ metadataStore' = Present(ret.value.metadata)
    /\ ret' = Done("saveAudioFiles", ret.arg, ret.value.results)
    /\ io' = io \o <<Set(METADATA_KEY)>>
    /\ UNCHANGED <<audioStore, maxFileSizeMB, maxCacheSizeBytes, cacheVars,
                   settings>>

\* the session ends while a save waits between its two writes: the second
\* write is never made
SessionEnds ==
    /\ ret.op \in BetweenWrites
    /\ ret' = Done("session ended", ret.arg, [ok |-> FALSE])
    /\ io' = <<>>
    /\ UNCHANGED <<storeVars, maxFileSizeMB, maxCacheSizeBytes, cacheVars,
                   settings>>

\* a delete or a clear made while no save is under way
DeleteAudioIdle(id) == ret.op \notin BetweenWrites /\ DeleteAudio(id)

ClearStoreIdle == ret.op \notin BetweenWrites /\ ClearStore

NextWriteOrder ==
    \/ \E file \in Files : SaveAudioFileWriteBlob(file)
    \/ SaveAudioFileWriteMetadata
    \/ \E files \in Batches : SaveAudioFilesWriteBlob(files)
    \/ SaveAudioFilesWriteMetadata
    \/ SessionEnds
    \/ \E id \in FileIds : DeleteAudioIdle(id)
    \/ ClearStoreIdle

\* saves taken apart at their DataStore writes, on tables that start with
\* equal key sets
SpecWriteOrder == InitStore /\ [][NextWriteOrder]_vars

-----------------------------------------------------------------------------
(* A batch with single-item operations between its reads and its writes *)

\* the most single-item operations that run while one batch is under way
MaxDuring == 1

\* saveAudioFiles(files) up to the end of its two reads: the batch holds its
\* own copies of the tables
SaveAudioFilesRead(files) ==
    /\ ret.op # "saveAudioFiles, tables read"
    /\ ret' = Done("saveAudioFiles, tables read", files,
                   [audio |-> Rows(audioStore), metadata |-> Rows(metadataStore),
                    during |-> <<>>])
    /\ io' = <<Get(STORAGE_KEY), Get(METADATA_KEY)>>
    /\ UNCHANGED <<storeVars, maxFileSizeMB, maxCacheSizeBytes, cacheVars, settings>>

\* deleteAudio(id) from its start to its end while the batch waits in its loop
DeleteAudioDuringBatch(id) ==
    /\ ret.op = "saveAudioFiles, tables read"
    /\ Len(ret.value.during) < MaxDuring
    /\ audioStore' = IF id \in Keys(audioStore)
                     THEN Present(Remove(Rows(audioStore), id))
                     ELSE audioStore
    /\ metadataStore' = IF id \in Keys(metadataStore)
                        THEN Present(Remove(Rows(metadataStore), id))
                        ELSE metadataStore
    /\ ret' = Done("saveAudioFiles, tables read", ret.arg,
                   [ret.value EXCEPT
                       !.during = Append(@, [op |-> "deleteAudio", id |-> id])])
    /\ io' = io \o <<Get(STORAGE_KEY)>>
                \o (IF id \in Keys(audioStore) THEN <<Set(STORAGE_KEY)>> ELSE <<>>)
                \o <<Get(METADATA_KEY)>>
                \o (IF id \in Keys(metadataStore) THEN <<Set(METADATA_KEY)>> ELSE <<>>)
    /\ UNCHANGED <<maxFileSizeMB, maxCacheSizeBytes, cacheVars, settings>>

\* saveAudioFile(file) from its start to its end while the batch waits in its
\* loop
SaveAudioFileDuringBatch(file) ==
    LET r == processAudioFile(file, maxFileSizeMB)
    IN  /\ ret.op = "saveAudioFiles, tables read"
        /\ Len(ret.value.during) < MaxDuring
        /\ r.ok
        /\ audioStore' = Present(Put(Rows(audioStore), r.id, r.audioData))
        /\ metadataStore' = Present(Put(Rows(metadataStore), r.id, r.metadata))
        /\ ret' = Done("saveAudioFiles, tables read", ret.arg,
                       [ret.value EXCEPT
                           !.during = Append(@, [op |-> "saveAudioFile", id |-> r.id])])
        /\ io' = io \o <<Get(STORAGE_KEY), Set(STORAGE_KEY),
                         Get(METADATA_KEY), Set(METADATA_KEY)>>
        /\ UNCHANGED <<maxFileSizeMB, maxCacheSizeBytes, cacheVars, settings>>

\* the rest of saveAudioFiles(files): the loop fills the copies read at the
\* start and both copies are written
SaveAudioFilesWrite ==
    /\ ret.op = "saveAudioFiles, tables read"
    /\ LET b == BatchLoop(ret.arg, 1, ret.value.audio, ret.value.metadata, <<>>)
       IN  /\ audioStore' = Present(b.audio)
           /\ metadataStore' = Present(b.metadata)
           /\ ret' = Done("saveAudioFiles, tables written", ret.arg,
                          [results |-> b.results, during |-> ret.value.during])
    /\ io' = io \o <<Set(STORAGE_KEY), Set(METADATA_KEY)>>
    /\ UNCHANGED <<maxFileSizeMB, maxCacheSizeBytes, cacheVars, settings>>

\* the files of the specification of interleaved batches
BatchFiles ==
    { File(<<"a", "mp3">>, "audio/mpeg", Buffer(1, 12 * MiB), TRUE),
      File(<<"c", "wav">>, "", Buffer(2, 5 * MiB), TRUE),
      File(<<"e", "mp3">>, "audio/mpeg", Buffer(4, 7), FALSE) }

BatchIds == {getBufferHashString(f.buffer) : f \in BatchFiles}

NextBatchInterleaved ==
    \/ ret.op # "saveAudioFiles, tables read"
       /\ \E file \in BatchFiles : SaveAudioFile(file)
    \/ ret.op # "saveAudioFiles, tables read"
       /\ \E id \in BatchIds : DeleteAudio(id)
    \/ \E files \in UNION {[1..n -> BatchFiles] : n \in 0..MaxBatch} :
           SaveAudioFilesRead(files)
    \/ \E id \in BatchIds : DeleteAudioDuringBatch(id)
    \/ \E file \in BatchFiles : SaveAudioFileDuringBatch(file)
    \/ SaveAudioFilesWrite

\* batches during which single-item saves and deletes run
SpecBatchInterleaved == InitStore /\ [][NextBatchInterleaved]_vars

-----------------------------------------------------------------------------
(* A save and a delete of one id, one DataStore call at a time *)

\* whether a saveAudioFile and a deleteAudio are under way
Running ==
    /\ ret.op = "saveAudioFile and deleteAudio"
    /\ ~(ret.value.save.pc = "done" /\ ret.value.delete.pc = "done")

\* saveAudioFile(file) has processed its file and deleteAudio(id) of the same
\* id has been called: each is about to read the blob table
StartSaveAndDelete(file) ==
    LET r == processAudioFile(file, maxFileSizeMB)
    IN  /\ ~Running
        /\ r.ok
        /\ ret' = Done("saveAudioFile and deleteAudio", file,
                       [id |-> r.id, audioData |-> r.audioData,
                        metadata |-> r.metadata,
                        save |-> [pc |-> "get blob", table |-> EmptyTable],
                        delete |-> [pc |-> "get blob", table |-> EmptyTable]])
        /\ io' = <<>>
        /\ UNCHANGED <<storeVars, maxFileSizeMB, maxCacheSizeBytes, cacheVars,
                       settings>>

\* the next DataStore call of the saveAudioFile under way
SaveAudioFileStep ==
    /\ Running
    /\ LET v == ret.value
           pc == v.save.pc
       IN  /\ pc # "done"
           /\ audioStore' = IF pc = "set blob"
                            THEN Present(Put(v.save.table, v.id, v.audioData))
                            ELSE audioStore
           /\ metadataStore' = IF pc = "set metadata"
                               THEN Present(Put(v.save.table, v.id, v.metadata))
                               ELSE metadataStore
           /\ ret' = Done("saveAudioFile and deleteAudio", ret.arg,
                          [v EXCEPT !.save =
                              CASE pc = "get blob" ->
                                       [pc |-> "set blob", table |-> Rows(audioStore)]
                                [] pc = "set blob" ->
                                       [pc |-> "get metadata", table |-> EmptyTable]
                                [] pc = "get metadata" ->
                                       [pc |-> "set metadata",
                                        table |-> Rows(metadataStore)]
                                [] pc = "set metadata" ->
                                       [pc |-> "done", table |-> EmptyTable]])
           /\ io' = Append(io, CASE pc = "get blob" -> Get(STORAGE_KEY)
                                 [] pc = "set blob" -> Set(STORAGE_KEY)
                                 [] pc = "get metadata" -> Get(METADATA_KEY)
                                 [] pc = "set metadata" -> Set(METADATA_KEY))
    /\ UNCHANGED <<maxFileSizeMB, maxCacheSizeBytes, cacheVars, settings>>

\* the next DataStore call of the deleteAudio under way: a table that has no
\* row of the id is not written
DeleteAudioStep ==
    /\ Running
    /\ LET v == ret.value
           pc == v.delete.pc
       IN  /\ pc # "done"
           /\ audioStore' = IF pc = "set blob"
                            THEN Present(Remove(v.delete.table, v.id))
                            ELSE audioStore
           /\ metadataStore' = IF pc = "set metadata"
                               THEN Present(Remove(v.delete.table, v.id))
                               ELSE metadataStore
           /\ ret' = Done("saveAudioFile and deleteAudio", ret.arg,
                          [v EXCEPT !.delete =
                              CASE pc = "get blob" ->
                                       IF v.id \in Keys(audioStore)
                                       THEN [pc |-> "set blob",
                                             table |-> Rows(audioStore)]
                                       ELSE [pc |-> "get metadata",
                                             table |-> EmptyTable]
                                [] pc = "set blob" ->
                                       [pc |-> "get metadata", table |-> EmptyTable]
                                [] pc = "get metadata" ->
                                       IF v.id \in Keys(metadataStore)
                                       THEN [pc |-> "set metadata",
                                             table |-> Rows(metadataStore)]
                                       ELSE [pc |-> "done", table |-> EmptyTable]
                                [] pc = "set metadata" ->
                                       [pc |-> "done", table |-> EmptyTable]])
           /\ io' = Append(io, CASE pc = "get blob" -> Get(STORAGE_KEY)
                                 [] pc = "set blob" -> Set(STORAGE_KEY)
                                 [] pc = "get metadata" -> Get(METADATA_KEY)
                                 [] pc = "set metadata" -> Set(METADATA_KEY))
    /\ UNCHANGED <<maxFileSizeMB, maxCacheSizeBytes, cacheVars, settings>>

NextSaveDelete ==
    \/ ~Running /\ \E file \in BatchFiles : SaveAudioFile(file)
    \/ ~Running /\ \E id \in BatchIds : DeleteAudio(id)
    \/ \E file \in BatchFiles : StartSaveAndDelete(file)
    \/ SaveAudioFileStep
    \/ DeleteAudioStep

\* saves and deletes run to completion, and a save and a delete of one id
\* whose DataStore calls interleave
SpecSaveDelete == InitStore /\ [][NextSaveDelete]_vars

-----------------------------------------------------------------------------
(* The data-URI cache: a Map in insertion order *)

Undefined == [undefined |-> TRUE]

MapKeys(m) == {m[i].key : i \in 1..Len(m)}

MapHas(m, k) == k \in MapKeys(m)

\* Map.prototype.get
MapGet(m, k) ==
    IF MapHas(m, k)
    THEN m[CHOOSE i \in 1..Len(m) : m[i].key = k].value
    ELSE Undefined

\* Map.prototype.delete
MapDelete(m, k) == SelectSeq(m, LAMBDA e : e.key # k)

\* Map.prototype.set: a key already in the map keeps its position
MapSet(m, k, v) ==
    IF MapHas(m, k)
    THEN [i \in 1..Len(m) |-> IF m[i].key = k THEN [key |-> k, value |-> v] ELSE m[i]]
    ELSE Append(m, [key |-> k, value |-> v])

\* the sum of the lengths of the URIs held in the map
RECURSIVE SumLengths(_)
SumLengths(m) == IF m = <<>> THEN 0 ELSE Head(m).value.length + SumLengths(Tail(m))

RECURSIVE EvictLoopNever(_, _, _, _)
\* nothing is ever evicted: a mutant of EvictLoop
EvictLoopNever(m, size, uriSize, limit) == [cache |-> m, size |-> size]

RECURSIVE EvictLoop(_, _, _, _)
\* the while loop of addToCache
EvictLoop(m, size, uriSize, limit) ==
    IF size + uriSize > limit /\ Len(m) > 0
    THEN LET oldestKey == Head(m).key
             oldestSize == MapGet(m, oldestKey).length
         IN  EvictLoop(MapDelete(m, oldestKey), size - oldestSize, uriSize, limit)
    ELSE [cache |-> m, size |-> size]

\* an oversized URI is cached after evicting what is in its way: a mutant of
\* addToCache
addToCacheNoReject(m, size, limit, fileId, dataUri) ==
    LET uriSize == dataUri.length
        e == EvictLoop(m, size, uriSize, limit)
    IN  [cache |-> MapSet(e.cache, fileId, dataUri), size |-> e.size + uriSize]

\* addToCache(fileId, dataUri) on the cache m with counter size and capacity limit
addToCache(m, size, limit, fileId, dataUri) ==
    LET uriSize == dataUri.length
    IN  IF uriSize > limit
        THEN [cache |-> m, size |-> size]
        ELSE LET e == EvictLoop(m, size, uriSize, limit)
             IN  [cache |-> MapSet(e.cache, fileId, dataUri),
                  size |-> e.size + uriSize]

\* a lookup that never finds an entry: a mutant of getFromCache
getFromCacheMiss(m, fileId) == [value |-> Undefined, cache |-> m]

\* getFromCache(fileId): the value returned and the map afterwards
getFromCache(m, fileId) ==
    LET dataUri == MapGet(m, fileId)
    IN  IF dataUri # Undefined
        THEN [value |-> dataUri,
              cache |-> MapSet(MapDelete(m, fileId), fileId, dataUri)]
        ELSE [value |-> Undefined, cache |-> m]

\* history: id becomes the most recently used one
Touch(r, id) == Append(SelectSeq(r, LAMBDA x : x # id), id)

\* the assets whose URIs reach the cache: uploads of the model and two larger
\* files, stored while the size limit was larger
AssetFiles ==
    { File(<<"a", "mp3">>, "audio/mpeg", Buffer(1, 12 * MiB), TRUE),
      File(<<"b", "OGG">>, "application/octet-stream", Buffer(1, 12 * MiB), TRUE),
      File(<<"c", "wav">>, "", Buffer(2, 5 * MiB), TRUE),
      File(<<"f", "mp3">>, "audio/mpeg", Buffer(5, 12 * MiB), TRUE),
      File(<<"g", "wma">>, "application/octet-stream", Buffer(6, 50 * MiB), TRUE) }

\* the (fileId, dataUri) pairs ensureDataURICached can hand to addToCache
CacheInputs ==
    {[fileId |-> getBufferHashString(f.buffer),
      dataUri |-> generateDataURI(f.buffer, f.type, f.name)] : f \in AssetFiles}

CacheIds == {in.fileId : in \in CacheInputs}

\* a call of addToCache
AddToCache(fileId, dataUri) ==
    LET c == addToCache(dataUriCache, currentCacheSize, maxCacheSizeBytes,
                        fileId, dataUri)
        accepted == dataUri.length <= maxCacheSizeBytes
    IN  /\ dataUriCache' = c.cache
        /\ currentCacheSize' = c.size
        /\ recency' = IF accepted THEN Touch(recency, fileId) ELSE recency
        /\ ret' = Done("addToCache", [fileId |-> fileId, dataUri |-> dataUri],
                       [accepted |-> accepted,
                        evicted |-> MapKeys(dataUriCache) \ MapKeys(c.cache)])
        /\ io' = <<>>
        /\ UNCHANGED <<storeVars, maxFileSizeMB, maxCacheSizeBytes, settings>>

\* a call of getFromCache
GetFromCache(fileId) ==
    LET g == getFromCache(dataUriCache, fileId)
    IN  /\ dataUriCache' = g.cache
        /\ recency' = IF g.value # Undefined THEN Touch(recency, fileId) ELSE recency
        /\ ret' = Done("getFromCache", fileId, g.value)
        /\ io' = <<>>
        /\ UNCHANGED <<storeVars, maxFileSizeMB, maxCacheSizeBytes,
                       currentCacheSize, settings>>

\* clearCache()
ClearCache ==
    /\ dataUriCache' = <<>>
    /\ currentCacheSize' = 0
    /\ recency' = <<>>
    /\ ret' = Done("clearCache", <<>>, [ok |-> TRUE])
    /\ io' = <<>>
    /\ UNCHANGED <<storeVars, maxFileSizeMB, maxCacheSizeBytes, settings>>

\* the size settings under which the assets of the model overflow the cache
SmallSizeOptions == {5, 15}

\* the cache after a start() under one of these size settings
InitCache ==
    /\ audioStore = Absent
    /\ metadataStore = Absent
    /\ maxFileSizeMB \in SmallSizeOptions
    /\ maxCacheSizeBytes = updateCacheLimit(maxFileSizeMB)
    /\ dataUriCache = <<>>
    /\ currentCacheSize = 0
    /\ settings = NoSettings
    /\ recency = <<>>
    /\ ret = NoOp
    /\ io = <<>>

NextCache ==
    \/ \E in \in CacheInputs : AddToCache(in.fileId, in.dataUri)
    \/ \E fileId \in CacheIds : GetFromCache(fileId)
    \/ ClearCache

\* the cache API under a capacity that stays as start() set it
SpecCache == InitCache /\ [][NextCache]_vars

NextCacheLimit ==
    \/ NextCache
    \/ \E value \in SmallSizeOptions : OnChangeMaxFileSize(value)

\* the cache API while the size setting is changed
SpecCacheLimit == InitCache /\ [][NextCacheLimit]_vars

-----------------------------------------------------------------------------
(* Storage migration *)

\* the ids crypto.randomUUID gave to the rows of the earlier storage format
UUIDs == {[format |-> "uuid", digest |-> n] : n \in 1..2}

\* UUID_REGEX.test(s): 64 hex characters never match, a random UUID does
isUUIDLike(s) == s.format = "uuid"

\* saveAudio(file) of the earlier version of the store: the row is keyed by a
\* fresh random UUID and carries the raw buffer
LegacySaveAudio(file, id) ==
    /\ metadataStore = Absent
    /\ \A k \in Keys(audioStore) : "buffer" \in DOMAIN Rows(audioStore)[k]
    /\ id \notin Keys(audioStore)
    /\ file.readable
    /\ audioStore' = Present(Put(Rows(audioStore), id,
                                 [id |-> id, name |-> file.name,
                                  buffer |-> file.buffer, type |-> file.type]))
    /\ ret' = Done("legacy saveAudio", file, [ok |-> TRUE, id |-> id])
    /\ io' = <<Get(STORAGE_KEY), Set(STORAGE_KEY)>>
    /\ UNCHANGED <<metadataStore, maxFileSizeMB, maxCacheSizeBytes, cacheVars,
                   settings>>

\* saveAudioFile(file) cut short after its first write: the session ends
\* between setAudioStore and setMetadataStore
SaveAudioFileInterrupted(file) ==
    LET r == processAudioFile(file, maxFileSizeMB)
    IN  /\ r.ok
        /\ audioStore' = Present(Put(Rows(audioStore), r.id, r.audioData))
        /\ ret' = Done("saveAudioFile interrupted", file, [ok |-> FALSE])
        /\ io' = <<Get(STORAGE_KEY), Set(STORAGE_KEY)>>
        /\ UNCHANGED <<metadataStore, maxFileSizeMB, maxCacheSizeBytes, cacheVars,
                       settings>>

\* the detection test of migrateStorage on one row
IsLegacyRow(file) ==
    \/ "buffer" \in DOMAIN file
    \/ ("id" \in DOMAIN file /\ isUUIDLike(file.id))

\* whether `const [file] = value` can take value apart: array destructuring
\* needs an iterable, and a row read back from the DataStore is a plain object
IsIterable(value) == ~("id" \in DOMAIN value \/ "name" \in DOMAIN value)

\* some enumeration of the values of a table
RECURSIVE ValuesOf(_)
ValuesOf(t) ==
    IF DOMAIN t = {}
    THEN <<>>
    ELSE LET k == CHOOSE x \in DOMAIN t : TRUE
         IN  <<t[k]>> \o ValuesOf(Remove(t, k))

RECURSIVE MigrateLoopOverRows(_, _, _)
\* a rewrite loop that takes each value as the row, `const file of`: a mutant
\* of MigrateLoop
MigrateLoopOverRows(values, i, newAudioStore) ==
    IF i > Len(values)
    THEN [threw |-> FALSE, table |-> newAudioStore]
    ELSE LET file == values[i]
             dataUri == IF "dataUri" \in DOMAIN file
                        THEN file.dataUri
                        ELSE generateDataURI(file.buffer, file.type, file.name)
         IN  IF "buffer" \notin DOMAIN file
             THEN [threw |-> TRUE, table |-> newAudioStore]
             ELSE MigrateLoopOverRows(values, i + 1,
                      Put(newAudioStore, getBufferHashString(file.buffer),
                          [id |-> getBufferHashString(file.buffer),
                           name |-> file.name, type |-> file.type,
                           dataUri |-> dataUri]))

\* the rewrite loop of migrateStorage over values[i..]: the new blob table,
\* or the TypeError of the first value that cannot be destructured
RECURSIVE MigrateLoop(_, _, _)
MigrateLoop(values, i, newAudioStore) ==
    IF i > Len(values)
    THEN [threw |-> FALSE, table |-> newAudioStore]
    ELSE IF ~IsIterable(values[i])
    THEN [threw |-> TRUE, table |-> newAudioStore]
    ELSE LET file == Head(values[i])
             dataUri == IF "dataUri" \in DOMAIN file
                        THEN file.dataUri
                        ELSE generateDataURI(file.buffer, file.type, file.name)
             new_id == getBufferHashString(file.buffer)
         IN  MigrateLoop(values, i + 1,
                         Put(newAudioStore, new_id,
                             [id |-> new_id,
                              name |-> IF file.name # <<>> THEN file.name
                                       ELSE <<"Unknown">>,
                              type |-> IF file.type # "" THEN file.type
                                       ELSE "audio/mpeg",
                              dataUri |-> dataUri]))

\* a rebuild that takes the size of a row from its buffer: a mutant of
\* RebuildMetadata
RebuildMetadataFromBuffer(t) ==
    [id \in DOMAIN t |->
        [id |-> t[id].id, name |-> t[id].name, type |-> t[id].type,
         size |-> IF "buffer" \in DOMAIN t[id] THEN t[id].buffer.byteLength ELSE 0]]

\* the metadata table rebuilt from a blob table
RebuildMetadata(t) ==
    [id \in DOMAIN t |->
        [id |-> t[id].id, name |-> t[id].name, type |-> t[id].type,
         size |-> IF "dataUri" \in DOMAIN t[id] THEN t[id].dataUri.length ELSE 0]]

\* migrateStorage() on the two DataStore values: what it returns or that it
\* threw, and the two values afterwards
migrateStorage(audio, metadata) ==
    IF audio = Absent
    THEN [threw |-> FALSE, result |-> FALSE, audio |-> audio, metadata |-> metadata,
          io |-> <<Get(STORAGE_KEY)>>]
    ELSE LET needsMigration == \E k \in DOMAIN audio[1] : IsLegacyRow(audio[1][k])
             metadataMissing == metadata = Absent /\ DOMAIN audio[1] # {}
             loop == MigrateLoop(ValuesOf(audio[1]), 1, EmptyTable)
             migrated == IF needsMigration THEN Present(loop.table) ELSE audio
             needsMetadataRebuild == needsMigration \/ metadataMissing
         IN  IF needsMigration /\ loop.threw
             THEN [threw |-> TRUE, result |-> FALSE,
                   audio |-> audio, metadata |-> metadata,
                   io |-> <<Get(STORAGE_KEY), Get(METADATA_KEY)>>]
             ELSE [threw |-> FALSE,
                   result |-> needsMigration \/ needsMetadataRebuild,
                   audio |-> migrated,
                   metadata |-> IF needsMetadataRebuild
                                THEN Present(RebuildMetadata(Rows(migrated)))
                                ELSE metadata,
                   io |-> <<Get(STORAGE_KEY), Get(METADATA_KEY)>>
                          \o (IF needsMigration THEN <<Set(STORAGE_KEY)>> ELSE <<>>)
                          \o (IF needsMetadataRebuild
                              THEN <<Get(STORAGE_KEY), Set(METADATA_KEY)>>
                              ELSE <<>>)]

\* a run of migrateStorage()
MigrateStorage ==
    LET m == migrateStorage(audioStore, metadataStore)
    IN  /\ audioStore' = m.audio
        /\ metadataStore' = m.metadata
        /\ ret' = Done("migrateStorage", <<>>, [threw |-> m.threw, result |-> m.result])
        /\ io' = m.io
        /\ UNCHANGED <<maxFileSizeMB, maxCacheSizeBytes, cacheVars, settings>>

\* the sum of the size fields of the rows of a metadata table
RECURSIVE TotalSize(_)
TotalSize(t) ==
    IF DOMAIN t = {}
    THEN 0
    ELSE LET k == CHOOSE x \in DOMAIN t : TRUE
         IN  t[k].size + TotalSize(Remove(t, k))

\* storage info counted over the blob table: a mutant of getStorageInfo
getStorageInfoOfBlobs(metadata) ==
    [fileCount |-> Cardinality(Keys(audioStore)),
     totalSizeKB |-> RoundDiv(TotalSize(Rows(metadata)), 1024)]

\* getStorageInfo() on the DataStore value of the metadata key
getStorageInfo(metadata) ==
    [fileCount |-> Cardinality(Keys(metadata)),
     totalSizeKB |-> RoundDiv(TotalSize(Rows(metadata)), 1024)]

\* a call of getStorageInfo()
GetStorageInfo ==
    /\ ret' = Done("getStorageInfo", <<>>, getStorageInfo(metadataStore))
    /\ io' = <<Get(METADATA_KEY)>>
    /\ UNCHANGED <<storeVars, maxFileSizeMB, maxCacheSizeBytes, cacheVars, settings>>

\* the files whose rows the migration specification writes
MigrationFiles ==
    { File(<<"a", "mp3">>, "audio/mpeg", Buffer(1, 12 * MiB), TRUE),
      File(<<"c", "wav">>, "", Buffer(2, 5 * MiB), TRUE) }

MigrationIds == {getBufferHashString(f.buffer) : f \in MigrationFiles} \cup UUIDs

NextMigrate ==
    \/ \E file \in MigrationFiles : \E id \in UUIDs : LegacySaveAudio(file, id)
    \/ \E file \in MigrationFiles : SaveAudioFile(file)
    \/ \E file \in MigrationFiles : SaveAudioFileInterrupted(file)
    \/ \E id \in MigrationIds : DeleteAudio(id)
    \/ ClearStore
    \/ MigrateStorage
    \/ GetStorageInfo

\* the DataStore over the sessions of the plugin: rows written by the earlier
\* version, saves and deletes of the current one, and migrations at startup
SpecMigrate == InitStore /\ [][NextMigrate]_vars

-----------------------------------------------------------------------------
(* Overrides and their resolution *)

Null == [null |-> TRUE]

\* the sound events of the model, with their seasonal ids
SOUND_TYPES ==
    << [id |-> "user_join",
        seasonal |-> <<"halloween_user_join", "winter_user_join">>],
       [id |-> "message3", seasonal |-> <<>>] >>

SoundEvents == {SOUND_TYPES[i].id : i \in 1..Len(SOUND_TYPES)}

\* the table of built-in seasonal sounds
SEASONAL_SOUNDS ==
    [x \in {"halloween_user_join", "winter_user_join"} |->
        [mimeType |-> "builtin", base64 |-> x, length |-> 0]]

\* seasonalId.startsWith(`${selectedSound}_`) on the strings of the model
StartsWithKey(seasonalId, selectedSound) ==
    <<selectedSound, seasonalId>> \in
        { <<"halloween", "halloween_user_join">>,
          <<"winter", "winter_user_join">> }

makeEmptyOverride == [enabled |-> FALSE, selectedSound |-> "default", volume |-> 100]

\* a field of an object, undefined when the object lacks it
Field(o, f) == IF f \in DOMAIN o THEN o[f] ELSE Undefined

\* JSON.stringify of an override: a field that is undefined is left out
JSONstringify(o) ==
    [type |-> "string",
     json |-> [f \in {g \in DOMAIN o : g # "selectedFileId" \/ o[g] # Undefined}
                  |-> o[f]]]

\* getOverride(id) on the settings store s
getOverride(s, id) ==
    LET stored == s[id]
    IN  IF stored.type = "unset" THEN makeEmptyOverride
        ELSE IF stored.type = "object" THEN stored.value
        ELSE IF stored.type = "string" /\ "json" \in DOMAIN stored THEN stored.json
        ELSE makeEmptyOverride

\* setOverride(id, override) on the settings store s
setOverride(s, id, override) == [s EXCEPT ![id] = JSONstringify(override)]

\* allSoundTypes.find(t => t.id === id)
FindSoundType(id) ==
    IF \E i \in 1..Len(SOUND_TYPES) : SOUND_TYPES[i].id = id
    THEN SOUND_TYPES[CHOOSE i \in 1..Len(SOUND_TYPES) : SOUND_TYPES[i].id = id]
    ELSE Undefined

\* whether soundType.seasonal.find(id => id.startsWith(`${selectedSound}_`))
\* finds an id
HasSeasonalId(seasonal, selectedSound) ==
    \E i \in 1..Len(seasonal) : StartsWithKey(seasonal[i], selectedSound)

\* the id it finds: the first one with the prefix
FindSeasonalId(seasonal, selectedSound) ==
    seasonal[CHOOSE i \in 1..Len(seasonal) :
                 /\ StartsWithKey(seasonal[i], selectedSound)
                 /\ \A j \in 1..(i - 1) : ~StartsWithKey(seasonal[j], selectedSound)]

\* the TypeError a property access on null or undefined throws
TypeError == [threw |-> "TypeError"]

\* whether a value is null or undefined
Nullish(v) == v \in {Null, Undefined}

\* `override.enabled` as a condition, the override read without a guard: a
\* mutant of EnabledOf
EnabledOfUnguarded(override) ==
    IF Nullish(override)
    THEN [threw |-> TRUE, truthy |-> FALSE]
    ELSE [threw |-> FALSE,
          truthy |-> "enabled" \in DOMAIN override /\ override.enabled]

\* `override?.enabled` as a condition: whether evaluating it throws, and
\* whether its value is truthy
EnabledOf(override) ==
    [threw |-> FALSE,
     truthy |-> "enabled" \in DOMAIN override /\ override.enabled]

\* override.selectedSound as the string the `in` operator and the template
\* literal make of it
SelectedSound(override) ==
    IF "selectedSound" \in DOMAIN override THEN override.selectedSound
    ELSE "undefined"

\* a seasonal branch without the lookup of the literal value: a mutant of
\* SeasonalURL
SeasonalURLNoLiteral(selectedSound, id) ==
    LET soundType == FindSoundType(id)
    IN  IF soundType = Undefined \/ soundType.seasonal = <<>>
        THEN Null
        ELSE IF ~HasSeasonalId(soundType.seasonal, selectedSound)
        THEN Null
        ELSE SEASONAL_SOUNDS[FindSeasonalId(soundType.seasonal, selectedSound)]

\* the seasonal branch of getCustomSoundURL
SeasonalURL(selectedSound, id) ==
    LET soundType == FindSoundType(id)
    IN  IF selectedSound \in DOMAIN SEASONAL_SOUNDS
        THEN SEASONAL_SOUNDS[selectedSound]
        ELSE IF soundType = Undefined \/ soundType.seasonal = <<>>
        THEN Null
        ELSE IF ~HasSeasonalId(soundType.seasonal, selectedSound)
        THEN Null
        ELSE LET seasonalId == FindSeasonalId(soundType.seasonal, selectedSound)
             IN  IF seasonalId \in DOMAIN SEASONAL_SOUNDS
                 THEN SEASONAL_SOUNDS[seasonalId]
                 ELSE Null

\* getCustomSoundURL(id) once the override is known to be enabled
ResolveEnabled(m, override, id) ==
    LET selectedSound == SelectedSound(override)
        selectedFileId == Field(override, "selectedFileId")
    IN  IF selectedSound = "custom" /\ selectedFileId # Undefined
        THEN LET g == getFromCache(m, selectedFileId)
             IN  [threw |-> FALSE,
                  value |-> IF g.value = Undefined THEN Null ELSE g.value,
                  cache |-> g.cache, io |-> <<>>]
        ELSE IF selectedSound \notin {"default", "custom"}
        THEN [threw |-> FALSE, value |-> SeasonalURL(selectedSound, id),
              cache |-> m, io |-> <<>>]
        ELSE [threw |-> FALSE, value |-> Null, cache |-> m, io |-> <<>>]

\* a resolver without the test of override.enabled: a mutant of
\* getCustomSoundURL
getCustomSoundURLNoEnabledCheck(m, s, id) ==
    ResolveEnabled(m, getOverride(s, id), id)

\* a resolver that loads the asset from the DataStore on a cache miss: a
\* mutant of getCustomSoundURL
getCustomSoundURLLoads(m, s, id) ==
    LET override == getOverride(s, id)
        selectedFileId == Field(override, "selectedFileId")
        stored == IF selectedFileId \in Keys(audioStore)
                  THEN Rows(audioStore)[selectedFileId].dataUri
                  ELSE Null
    IN  IF ~EnabledOf(override).truthy
        THEN [threw |-> FALSE, value |-> Null, cache |-> m, io |-> <<>>]
        ELSE IF SelectedSound(override) = "custom" /\ selectedFileId # Undefined
                /\ ~MapHas(m, selectedFileId)
        THEN [threw |-> FALSE, value |-> stored, cache |-> m,
              io |-> <<Get(STORAGE_KEY)>>]
        ELSE ResolveEnabled(m, override, id)

\* getCustomSoundURL(id): whether it threw, the value returned, the cache
\* afterwards and the DataStore calls made
getCustomSoundURL(m, s, id) ==
    LET override == getOverride(s, id)
        enabled == EnabledOf(override)
    IN  IF enabled.threw
        THEN [threw |-> TRUE, value |-> TypeError, cache |-> m, io |-> <<>>]
        ELSE IF ~enabled.truthy
        THEN [threw |-> FALSE, value |-> Null, cache |-> m, io |-> <<>>]
        ELSE ResolveEnabled(m, override, id)

\* isOverriden(id)
isOverriden(s, id) ==
    LET enabled == EnabledOf(getOverride(s, id))
    IN  [threw |-> enabled.threw, value |-> enabled.truthy]

\* findOverride(id)
findOverride(s, id) ==
    LET override == getOverride(s, id)
        enabled == EnabledOf(override)
    IN  [threw |-> enabled.threw,
         value |-> IF enabled.truthy THEN override ELSE Null]

\* AudioStore.getAudioDataURI(id) on the DataStore value audio
getAudioDataURI(audio, id) ==
    IF id \in Keys(audio) /\ "dataUri" \in DOMAIN Rows(audio)[id]
    THEN Rows(audio)[id].dataUri
    ELSE Undefined

\* a load that returns the URI without caching it: a mutant of
\* ensureDataURICached
ensureDataURICachedNoAdd(m, size, limit, audio, fileId) ==
    LET g == getFromCache(m, fileId)
        dataUri == getAudioDataURI(audio, fileId)
    IN  IF g.value # Undefined
        THEN [value |-> g.value, cache |-> g.cache, size |-> size, io |-> <<>>]
        ELSE [value |-> IF dataUri # Undefined THEN dataUri ELSE Null,
              cache |-> m, size |-> size, io |-> <<Get(STORAGE_KEY)>>]

\* ensureDataURICached(fileId) run to completion: the value returned and the
\* cache and its counter afterwards
ensureDataURICached(m, size, limit, audio, fileId) ==
    LET g == getFromCache(m, fileId)
        dataUri == getAudioDataURI(audio, fileId)
        c == addToCache(m, size, limit, fileId, dataUri)
    IN  IF g.value # Undefined
        THEN [value |-> g.value, cache |-> g.cache, size |-> size, io |-> <<>>]
        ELSE IF dataUri # Undefined
        THEN [value |-> dataUri, cache |-> c.cache, size |-> c.size,
              io |-> <<Get(STORAGE_KEY)>>]
        ELSE [value |-> Null, cache |-> m, size |-> size,
              io |-> <<Get(STORAGE_KEY)>>]

\* a call of ensureDataURICached(fileId), as uploadFiles and refreshDataURI make it
EnsureDataURICached(fileId) ==
    LET e == ensureDataURICached(dataUriCache, currentCacheSize, maxCacheSizeBytes,
                                 audioStore, fileId)
    IN  /\ dataUriCache' = e.cache
        /\ currentCacheSize' = e.size
        /\ recency' = IF MapHas(e.cache, fileId) THEN Touch(recency, fileId)
                      ELSE recency
        /\ ret' = Done("ensureDataURICached", fileId, e.value)
        /\ io' = e.io
        /\ UNCHANGED <<storeVars, maxFileSizeMB, maxCacheSizeBytes, settings>>

\* a call of ensureDataURICached(fileId) whose DataStore read is rejected:
\* the error is caught and logged
EnsureDataURICachedReadRejected(fileId) ==
    /\ ~MapHas(dataUriCache, fileId)
    /\ ret' = Done("ensureDataURICached, read rejected", fileId, Null)
    /\ io' = <<Get(STORAGE_KEY)>>
    /\ UNCHANGED <<storeVars, maxFileSizeMB, maxCacheSizeBytes, cacheVars, settings>>

\* the onChange handler of an override row: the edited override is stored,
\* and the file of an enabled custom override is loaded into the cache
OverrideOnChange(id, override) ==
    LET selectedFileId == Field(override, "selectedFileId")
        load == override.enabled /\ override.selectedSound = "custom"
                /\ selectedFileId # Undefined
        e == ensureDataURICached(dataUriCache, currentCacheSize, maxCacheSizeBytes,
                                 audioStore, selectedFileId)
    IN  /\ settings' = setOverride(settings, id, override)
        /\ IF load
           THEN /\ dataUriCache' = e.cache
                /\ currentCacheSize' = e.size
                /\ recency' = IF MapHas(e.cache, selectedFileId)
                              THEN Touch(recency, selectedFileId)
                              ELSE recency
                /\ io' = e.io
           ELSE /\ UNCHANGED cacheVars
                /\ io' = <<>>
        /\ ret' = Done("override.onChange", [id |-> id, override |-> override],
                       [ok |-> TRUE])
        /\ UNCHANGED <<storeVars, maxFileSizeMB, maxCacheSizeBytes>>

\* a call of getCustomSoundURL(id) by the patched player
GetCustomSoundURL(id) ==
    LET u == getCustomSoundURL(dataUriCache, settings, id)
        override == getOverride(settings, id)
    IN  /\ dataUriCache' = u.cache
        /\ recency' = IF u.cache # dataUriCache
                      THEN Touch(recency, Field(override, "selectedFileId"))
                      ELSE recency
        /\ ret' = Done("getCustomSoundURL", id, u.value)
        /\ io' = u.io
        /\ UNCHANGED <<storeVars, maxFileSizeMB, maxCacheSizeBytes,
                       currentCacheSize, settings>>

\* a call of isOverriden(id) by the patched player
IsOverriden(id) ==
    /\ ret' = Done("isOverriden", id, isOverriden(settings, id))
    /\ io' = <<>>
    /\ UNCHANGED <<storeVars, maxFileSizeMB, maxCacheSizeBytes, cacheVars, settings>>

\* a call of findOverride(id) by the patched player
FindOverride(id) ==
    /\ ret' = Done("findOverride", id, findOverride(settings, id))
    /\ io' = <<>>
    /\ UNCHANGED <<storeVars, maxFileSizeMB, maxCacheSizeBytes, cacheVars, settings>>

\* the loop of the "Remove All" handler over SOUND_TYPES[i..]: every override
\* loses its selectedFileId; `override.selectedFileId = undefined` throws on
\* an override that is null
RECURSIVE ClearSelectedFileIds(_, _)
ClearSelectedFileIds(s, i) ==
    IF i > Len(SOUND_TYPES)
    THEN [threw |-> FALSE, settings |-> s]
    ELSE LET id == SOUND_TYPES[i].id
             override == getOverride(s, id)
         IN  IF Nullish(override)
             THEN [threw |-> TRUE, settings |-> s]
             ELSE ClearSelectedFileIds(
                      setOverride(s, id,
                          [f \in DOMAIN override \cup {"selectedFileId"} |->
                              IF f = "selectedFileId" THEN Undefined
                              ELSE override[f]]),
                      i + 1)

\* a "Remove All" that leaves the cache alone: a mutant of RemoveAll
RemoveAllKeepsCache ==
    LET c == ClearSelectedFileIds(settings, 1)
    IN  /\ Keys(metadataStore) # {}
        /\ audioStore' = Present(EmptyTable)
        /\ metadataStore' = Present(EmptyTable)
        /\ settings' = c.settings
        /\ ret' = Done("removeAll", <<>>,
                       [ok |-> ~c.threw, removed |-> Keys(audioStore),
                        cached |-> MapKeys(dataUriCache)])
        /\ io' = <<Set(STORAGE_KEY), Set(METADATA_KEY), Get(METADATA_KEY)>>
        /\ UNCHANGED <<maxFileSizeMB, maxCacheSizeBytes, cacheVars>>

\* the onConfirm handler of "Remove All", offered while the list of files is
\* not empty: clearStore(), clearCache(), loadFiles(), and every override is
\* stored again without its selectedFileId
RemoveAll ==
    LET c == ClearSelectedFileIds(settings, 1)
    IN  /\ Keys(metadataStore) # {}
        /\ audioStore' = Present(EmptyTable)
        /\ metadataStore' = Present(EmptyTable)
        /\ dataUriCache' = <<>>
        /\ currentCacheSize' = 0
        /\ recency' = <<>>
        /\ settings' = c.settings
        /\ ret' = Done("removeAll", <<>>,
                       [ok |-> ~c.threw, removed |-> Keys(audioStore),
                        cached |-> MapKeys(dataUriCache)])
        /\ io' = <<Set(STORAGE_KEY), Set(METADATA_KEY), Get(METADATA_KEY)>>
        /\ UNCHANGED <<maxFileSizeMB, maxCacheSizeBytes>>

\* the files uploaded in the resolver specification
ResolverFiles ==
    { File(<<"a", "mp3">>, "audio/mpeg", Buffer(1, 12 * MiB), TRUE),
      File(<<"c", "wav">>, "", Buffer(2, 5 * MiB), TRUE) }

ResolverIds == {getBufferHashString(f.buffer) : f \in ResolverFiles}

\* the overrides a user sets in the resolver specification
OverrideChoices ==
    {makeEmptyOverride}
    \cup {[enabled |-> en, selectedSound |-> "custom", selectedFileId |-> id,
           volume |-> 100] : en \in BOOLEAN, id \in ResolverIds}
    \cup {[enabled |-> en, selectedSound |-> "halloween", volume |-> 50] :
              en \in BOOLEAN}
    \cup {[enabled |-> TRUE, selectedSound |-> "default", selectedFileId |-> id,
           volume |-> 100] : id \in ResolverIds}
    \cup {[enabled |-> TRUE, selectedSound |-> "custom", volume |-> 100],
          [enabled |-> TRUE, selectedSound |-> "winter_user_join", volume |-> 100],
          [enabled |-> TRUE, selectedSound |-> "spring", volume |-> 100]}

\* every slot holds its default, JSON.stringify(makeEmptyOverride())
DefaultSettings == [id \in SoundEvents |-> JSONstringify(makeEmptyOverride)]

InitResolver ==
    /\ audioStore = Absent
    /\ metadataStore = Absent
    /\ maxFileSizeMB = DEFAULT_MAX_FILE_SIZE_MB
    /\ maxCacheSizeBytes = updateCacheLimit(DEFAULT_MAX_FILE_SIZE_MB)
    /\ dataUriCache = <<>>
    /\ currentCacheSize = 0
    /\ settings = DefaultSettings
    /\ recency = <<>>
    /\ ret = NoOp
    /\ io = <<>>

NextResolver ==
    \/ \E file \in ResolverFiles : SaveAudioFile(file)
    \/ \E id \in ResolverIds : EnsureDataURICached(id)
    \/ \E id \in ResolverIds : DeleteAudio(id)
    \/ \E id \in SoundEvents : \E o \in OverrideChoices : OverrideOnChange(id, o)
    \/ \E id \in SoundEvents : GetCustomSoundURL(id)
    \/ RemoveAll

\* uploads, deletes and override edits of one session, and the player
\* resolving sounds in between
SpecResolver == InitResolver /\ [][NextResolver]_vars

\* the files of the loading specification; the last one can only be
\* uploaded under the size setting 50
EnsureFiles ==
    { File(<<"a", "mp3">>, "audio/mpeg", Buffer(1, 12 * MiB), TRUE),
      File(<<"c", "wav">>, "", Buffer(2, 5 * MiB), TRUE),
      File(<<"g", "wma">>, "application/octet-stream", Buffer(6, 50 * MiB), TRUE) }

EnsureIds == {getBufferHashString(f.buffer) : f \in EnsureFiles}

EnsureSizeOptions == {5, 15, 50}

NextEnsure ==
    \/ \E file \in EnsureFiles : SaveAudioFile(file)
    \/ \E id \in EnsureIds : DeleteAudio(id)
    \/ \E id \in EnsureIds : EnsureDataURICached(id)
    \/ \E id \in EnsureIds : EnsureDataURICachedReadRejected(id)
    \/ \E value \in EnsureSizeOptions : OnChangeMaxFileSize(value)

\* uploads, deletes and loads into the cache while the size setting is
\* changed
SpecEnsure == InitStore /\ [][NextEnsure]_vars

\* the most ensureDataURICached calls that wait for their read at a time
MaxInFlight == 2

\* the ids of the ensureDataURICached calls that have missed the cache and
\* wait for AudioStore.getAudioDataURI
InFlight ==
    IF ret.op \in {"ensureDataURICached, awaiting read",
                   "ensureDataURICached, read done"}
    THEN ret.value.inFlight
    ELSE <<>>

\* ensureDataURICached(fileId) up to its await: the cache has no entry of the
\* id and the read of the blob table is under way
EnsureDataURICachedMiss(fileId) ==
    /\ Len(InFlight) < MaxInFlight
    /\ getFromCache(dataUriCache, fileId).value = Undefined
    /\ ret' = Done("ensureDataURICached, awaiting read", fileId,
                   [inFlight |-> Append(InFlight, fileId), value |-> Undefined])
    /\ io' = <<>>
    /\ UNCHANGED <<storeVars, maxFileSizeMB, maxCacheSizeBytes, cacheVars, settings>>

\* the rest of the i-th waiting ensureDataURICached call: its read returns
\* and the URI, if there is one, goes to addToCache
EnsureDataURICachedResume(i) ==
    /\ i \in 1..Len(InFlight)
    /\ LET fileId == InFlight[i]
           dataUri == getAudioDataURI(audioStore, fileId)
           c == addToCache(dataUriCache, currentCacheSize, maxCacheSizeBytes,
                           fileId, dataUri)
           rest == [j \in 1..(Len(InFlight) - 1) |->
                       IF j < i THEN InFlight[j] ELSE InFlight[j + 1]]
       IN  /\ IF dataUri # Undefined
              THEN /\ dataUriCache' = c.cache
                   /\ currentCacheSize' = c.size
                   /\ recency' = IF MapHas(c.cache, fileId)
                                 THEN Touch(recency, fileId) ELSE recency
              ELSE UNCHANGED cacheVars
           /\ ret' = Done("ensureDataURICached, read done", fileId,
                          [inFlight |-> rest,
                           value |-> IF dataUri # Undefined THEN dataUri ELSE Null])
           /\ io' = <<Get(STORAGE_KEY)>>
           /\ UNCHANGED <<storeVars, maxFileSizeMB, maxCacheSizeBytes, settings>>

\* the files of the specification of interleaved loads
InterleavedFiles ==
    { File(<<"a", "mp3">>, "audio/mpeg", Buffer(1, 12 * MiB), TRUE),
      File(<<"c", "wav">>, "", Buffer(2, 5 * MiB), TRUE) }

InterleavedIds == {getBufferHashString(f.buffer) : f \in InterleavedFiles}

NextInterleavedEnsure ==
    \/ InFlight = <<>> /\ \E file \in InterleavedFiles : SaveAudioFile(file)
    \/ InFlight = <<>> /\ \E id \in InterleavedIds : EnsureDataURICached(id)
    \/ InFlight = <<>> /\ ClearCache
    \/ \E id \in InterleavedIds : EnsureDataURICachedMiss(id)
    \/ \E i \in 1..MaxInFlight : EnsureDataURICachedResume(i)

\* loads into the cache whose reads of the blob table overlap
SpecInterleavedEnsure == InitStore /\ [][NextInterleavedEnsure]_vars

-----------------------------------------------------------------------------
(* Import and export of the override settings *)

\* resetOverrides(): every slot of the catalog gets the empty override
resetOverrides(s) ==
    [k \in DOMAIN s |->
        IF k \in SoundEvents THEN JSONstringify(makeEmptyOverride) ELSE s[k]]

\* settings.store[id] = JSON.stringify(override) for an id that need not be
\* a sound event
StoreOverride(s, id, override) ==
    [k \in DOMAIN s \cup {id} |->
        IF k = id THEN JSONstringify(override) ELSE s[k]]

\* `setting.f ?? empty.f` for the fields of the override an import builds
ImportedOverride(setting) ==
    [f \in {"enabled", "selectedSound", "selectedFileId", "volume"} |->
        IF f \in DOMAIN setting THEN setting[f]
        ELSE IF f = "selectedFileId" THEN Undefined
        ELSE makeEmptyOverride[f]]

\* the forEach of handleSettingsUpload over overrides[i..]: the settings
\* store afterwards, or the TypeError of `setting.id` on an element that is
\* null
RECURSIVE ImportLoop(_, _, _)
ImportLoop(overrides, i, s) ==
    IF i > Len(overrides)
    THEN [threw |-> FALSE, settings |-> s]
    ELSE IF Nullish(overrides[i])
    THEN [threw |-> TRUE, settings |-> s]
    ELSE IF "id" \notin DOMAIN overrides[i]
    THEN ImportLoop(overrides, i + 1, s)
    ELSE ImportLoop(overrides, i + 1,
                    StoreOverride(s, overrides[i].id, ImportedOverride(overrides[i])))

\* the onload handler of handleSettingsUpload on the text of the file:
\* whether an error was caught, and the settings store afterwards
handleSettingsUpload(s, content) ==
    LET reset == resetOverrides(s)
    IN  IF content.type = "malformed" \/ Nullish(content.value)
        THEN [threw |-> TRUE, settings |-> reset]
        ELSE IF "overrides" \notin DOMAIN content.value
        THEN [threw |-> FALSE, settings |-> reset]
        ELSE ImportLoop(content.value.overrides, 1, reset)

\* an import that also drops the cached URIs: a mutant of
\* HandleSettingsUpload
HandleSettingsUploadClearsCache(content) ==
    LET h == handleSettingsUpload(settings, content)
    IN  /\ settings' = h.settings
        /\ dataUriCache' = <<>>
        /\ currentCacheSize' = 0
        /\ recency' = <<>>
        /\ ret' = Done("handleSettingsUpload", content, [ok |-> ~h.threw])
        /\ io' = <<>>
        /\ UNCHANGED <<storeVars, maxFileSizeMB, maxCacheSizeBytes>>

\* the user imports a settings file
HandleSettingsUpload(content) ==
    LET h == handleSettingsUpload(settings, content)
    IN  /\ settings' = h.settings
        /\ ret' = Done("handleSettingsUpload", content, [ok |-> ~h.threw])
        /\ io' = <<>>
        /\ UNCHANGED <<storeVars, maxFileSizeMB, maxCacheSizeBytes, cacheVars>>

\* the map and filter of downloadSettings over SOUND_TYPES[i..]
RECURSIVE ExportLoop(_, _, _)
ExportLoop(s, i, overrides) ==
    IF i > Len(SOUND_TYPES)
    THEN [threw |-> FALSE, overrides |-> overrides]
    ELSE LET id == SOUND_TYPES[i].id
             override == getOverride(s, id)
             fields == {"enabled", "selectedSound", "selectedFileId", "volume"}
                           \cap DOMAIN override
             o == [f \in fields \cup {"id"} |->
                      IF f = "id" THEN id ELSE override[f]]
         IN  IF Nullish(override)
             THEN [threw |-> TRUE, overrides |-> overrides]
             ELSE IF EnabledOf(override).truthy \/ SelectedSound(override) # "default"
             THEN ExportLoop(s, i + 1, Append(overrides, o))
             ELSE ExportLoop(s, i + 1, overrides)

\* downloadSettings(): the payload written to the file, or that it threw
downloadSettings(s) ==
    LET x == ExportLoop(s, 1, <<>>)
    IN  IF x.threw
        THEN [threw |-> TRUE]
        ELSE [threw |-> FALSE,
              exportPayload |->
                  [overrides |-> x.overrides,
                   __note |-> "Audio files are not included in exports and will need to be re-added before import"]]

\* the user exports the settings
DownloadSettings ==
    /\ ret' = Done("downloadSettings", <<>>, downloadSettings(settings))
    /\ io' = <<>>
    /\ UNCHANGED <<storeVars, maxFileSizeMB, maxCacheSizeBytes, cacheVars, settings>>

\* `$self.findOverride(this.name)?.volume ?? 100` of the patched player: the
\* percentage the volume of the sound is multiplied with
VolumePercent(s, id) ==
    LET override == findOverride(s, id).value
    IN  IF Nullish(override) \/ "volume" \notin DOMAIN override
        THEN 100
        ELSE override.volume

\* the patched player computes the volume of a sound
PlayerVolume(id) ==
    /\ ret' = Done("player volume", id, [percent |-> VolumePercent(settings, id)])
    /\ io' = <<>>
    /\ UNCHANGED <<storeVars, maxFileSizeMB, maxCacheSizeBytes, cacheVars, settings>>

\* the asset of the import specification
ImportFiles == {File(<<"a", "mp3">>, "audio/mpeg", Buffer(1, 12 * MiB), TRUE)}

ImportIds == {getBufferHashString(f.buffer) : f \in ImportFiles}

\* the settings files a user imports: text that is not JSON, the JSON of
\* null, an object without overrides, and objects whose overrides name an
\* event, leave fields out, carry a volume out of range, hold a null element
\* or name an id that is not a sound event
ImportContents ==
    { [type |-> "malformed"],
      [type |-> "json", value |-> Null],
      [type |-> "json", value |-> [__note |-> "none"]],
      [type |-> "json", value |-> [overrides |-> <<[id |-> "user_join"]>>]],
      [type |-> "json",
       value |-> [overrides |->
           << [id |-> "message3", enabled |-> TRUE, selectedSound |-> "halloween",
               volume |-> 150],
              Null,
              [id |-> "user_join", enabled |-> TRUE] >>]],
      [type |-> "json",
       value |-> [overrides |->
           << [enabled |-> TRUE, selectedSound |-> "custom"],
              [id |-> "maxFileSize", volume |-> 5] >>]] }
    \cup {[type |-> "json",
           value |-> [overrides |->
               << [id |-> "user_join", enabled |-> TRUE, selectedSound |-> "custom",
                   selectedFileId |-> id, volume |-> 100] >>]] : id \in ImportIds}

\* the overrides a user sets by hand in the import specification
ImportChoices ==
    {[enabled |-> en, selectedSound |-> "custom", selectedFileId |-> id,
      volume |-> 100] : en \in BOOLEAN, id \in ImportIds}

NextImport ==
    \/ \E file \in ImportFiles : SaveAudioFile(file)
    \/ \E id \in ImportIds : EnsureDataURICached(id)
    \/ \E id \in SoundEvents : \E o \in ImportChoices : OverrideOnChange(id, o)
    \/ \E content \in ImportContents : HandleSettingsUpload(content)
    \/ DownloadSettings
    \/ \E id \in SoundEvents : GetCustomSoundURL(id)
    \/ \E id \in SoundEvents : PlayerVolume(id)

\* uploads, override edits, imports and exports of one session
SpecImport == InitResolver /\ [][NextImport]_vars

-----------------------------------------------------------------------------
(* Startup *)

\* resetSeasonalOverridesToDefault() over SOUND_TYPES[i..]: the settings store
\* afterwards, or the TypeError of `override.enabled` on an override that is
\* null
RECURSIVE resetSeasonalOverridesToDefault(_, _)
resetSeasonalOverridesToDefault(s, i) ==
    IF i > Len(SOUND_TYPES)
    THEN [threw |-> FALSE, settings |-> s]
    ELSE LET id == SOUND_TYPES[i].id
             override == getOverride(s, id)
         IN  IF Nullish(override)
             THEN [threw |-> TRUE, settings |-> s]
             ELSE IF /\ EnabledOf(override).truthy
                     /\ SelectedSound(override) \in DOMAIN SEASONAL_SOUNDS
             THEN resetSeasonalOverridesToDefault(
                      setOverride(s, id, [override EXCEPT !.selectedSound = "default"]),
                      i + 1)
             ELSE resetSeasonalOverridesToDefault(s, i + 1)

\* the Set fileIdsToPreload of preloadDataURIs, in insertion order, collected
\* over SOUND_TYPES[i..]
RECURSIVE FileIdsToPreload(_, _, _)
FileIdsToPreload(s, i, ids) ==
    IF i > Len(SOUND_TYPES)
    THEN ids
    ELSE LET override == getOverride(s, SOUND_TYPES[i].id)
             selectedFileId == Field(override, "selectedFileId")
         IN  IF /\ EnabledOf(override).truthy
                /\ SelectedSound(override) = "custom"
                /\ selectedFileId # Undefined
                /\ \A j \in 1..Len(ids) : ids[j] # selectedFileId
             THEN FileIdsToPreload(s, i + 1, Append(ids, selectedFileId))
             ELSE FileIdsToPreload(s, i + 1, ids)

\* the loading loop of preloadDataURIs over ids[i..]
RECURSIVE PreloadLoop(_, _, _, _, _)
PreloadLoop(ids, i, c, limit, audio) ==
    IF i > Len(ids)
    THEN c
    ELSE LET e == ensureDataURICached(c.cache, c.size, limit, audio, ids[i])
         IN  PreloadLoop(ids, i + 1,
                         [cache |-> e.cache, size |-> e.size, io |-> c.io \o e.io],
                         limit, audio)

\* preloadDataURIs(): the cache, its counter and the DataStore calls made
preloadDataURIs(m, size, limit, audio, s) ==
    PreloadLoop(FileIdsToPreload(s, 1, <<>>), 1,
                [cache |-> m, size |-> size, io |-> <<>>], limit, audio)

\* start() without its try and catch: a mutant of start
startNoCatch(m, size, maxSize, s, audio, metadata, resetSeasonalOnStartup) ==
    LET limit == updateCacheLimit(maxSize)
        r == IF resetSeasonalOnStartup
             THEN resetSeasonalOverridesToDefault(s, 1)
             ELSE [threw |-> FALSE, settings |-> s]
        g == migrateStorage(audio, metadata)
        p == preloadDataURIs(m, size, limit, g.audio, r.settings)
    IN  IF r.threw \/ g.threw
        THEN [propagated |-> TRUE, caught |-> FALSE, limit |-> limit,
              settings |-> r.settings, audio |-> audio, metadata |-> metadata,
              cache |-> m, size |-> size, io |-> IF r.threw THEN <<>> ELSE g.io]
        ELSE [propagated |-> FALSE, caught |-> FALSE, limit |-> limit,
              settings |-> r.settings, audio |-> g.audio, metadata |-> g.metadata,
              cache |-> p.cache, size |-> p.size, io |-> g.io \o p.io]

\* start(): whether an error left it or was caught and logged, and the module
\* variables, the settings store and the two DataStore values afterwards
start(m, size, maxSize, s, audio, metadata, resetSeasonalOnStartup) ==
    LET limit == updateCacheLimit(maxSize)
        r == IF resetSeasonalOnStartup
             THEN resetSeasonalOverridesToDefault(s, 1)
             ELSE [threw |-> FALSE, settings |-> s]
        g == migrateStorage(audio, metadata)
        p == preloadDataURIs(m, size, limit, g.audio, r.settings)
    IN  IF r.threw
        THEN [propagated |-> FALSE, caught |-> TRUE, limit |-> limit,
              settings |-> r.settings, audio |-> audio, metadata |-> metadata,
              cache |-> m, size |-> size, io |-> <<>>]
        ELSE IF g.threw
        THEN [propagated |-> FALSE, caught |-> TRUE, limit |-> limit,
              settings |-> r.settings, audio |-> audio, metadata |-> metadata,
              cache |-> m, size |-> size, io |-> g.io]
        ELSE [propagated |-> FALSE, caught |-> FALSE, limit |-> limit,
              settings |-> r.settings, audio |-> g.audio, metadata |-> g.metadata,
              cache |-> p.cache, size |-> p.size, io |-> g.io \o p.io]

\* a run of start(): in a client that was restarted (the module variables of
\* the cache are fresh) or in a running client whose user enables the plugin
\* again; maxFileSizeMB holds the value of settings.store.maxFileSize
Start(fresh, resetSeasonalOnStartup) ==
    LET st == start(IF fresh THEN <<>> ELSE dataUriCache,
                    IF fresh THEN 0 ELSE currentCacheSize,
                    maxFileSizeMB, settings, audioStore, metadataStore,
                    resetSeasonalOnStartup)
    IN  /\ maxCacheSizeBytes' = st.limit
        /\ settings' = st.settings
        /\ audioStore' = st.audio
        /\ metadataStore' = st.metadata
        /\ dataUriCache' = st.cache
        /\ currentCacheSize' = st.size
        /\ recency' = [i \in 1..Len(st.cache) |-> st.cache[i].key]
        /\ ret' = Done("start",
                       [fresh |-> fresh,
                        resetSeasonalOnStartup |-> resetSeasonalOnStartup],
                       [propagated |-> st.propagated, caught |-> st.caught])
        /\ io' = st.io
        /\ UNCHANGED maxFileSizeMB

\* the earlier version of the plugin has saved a file for the event id under
\* fileId and made it the custom sound of the event: the slot holds the
\* override object
LegacySelectFile(id, fileId) ==
    /\ fileId \in Keys(audioStore)
    /\ "buffer" \in DOMAIN Rows(audioStore)[fileId]
    /\ metadataStore = Absent
    /\ settings' = [settings EXCEPT ![id] =
                       [type |-> "object",
                        value |-> [enabled |-> TRUE, url |-> "", useFile |-> FALSE,
                                   volume |-> 100, selectedSound |-> "custom",
                                   selectedFileId |-> fileId]]]
    /\ ret' = Done("legacy select file", [id |-> id, fileId |-> fileId], [ok |-> TRUE])
    /\ io' = <<Get(STORAGE_KEY)>>
    /\ UNCHANGED <<storeVars, maxFileSizeMB, maxCacheSizeBytes, cacheVars>>

\* the files of the startup specification
StartupFiles ==
    { File(<<"a", "mp3">>, "audio/mpeg", Buffer(1, 12 * MiB), TRUE),
      File(<<"c", "wav">>, "", Buffer(2, 5 * MiB), TRUE) }

StartupUUIDs == {[format |-> "uuid", digest |-> 1]}

StartupIds == {getBufferHashString(f.buffer) : f \in StartupFiles}

\* the overrides a user sets in the startup specification
StartupChoices ==
    {makeEmptyOverride}
    \cup {[enabled |-> TRUE, selectedSound |-> "custom", selectedFileId |-> id,
           volume |-> 100] : id \in StartupIds}
    \cup {[enabled |-> TRUE, selectedSound |-> "winter_user_join", volume |-> 100],
          [enabled |-> FALSE, selectedSound |-> "winter_user_join", volume |-> 100],
          [enabled |-> TRUE, selectedSound |-> "halloween", volume |-> 50]}

\* a settings store with its defaults, or with one slot that holds the JSON
\* of null
InitStartup ==
    /\ audioStore = Absent
    /\ metadataStore = Absent
    /\ maxFileSizeMB = DEFAULT_MAX_FILE_SIZE_MB
    /\ maxCacheSizeBytes = updateCacheLimit(DEFAULT_MAX_FILE_SIZE_MB)
    /\ dataUriCache = <<>>
    /\ currentCacheSize = 0
    /\ settings \in {DefaultSettings,
                      [DefaultSettings EXCEPT
                          !["message3"] = [type |-> "string", json |-> Null]]}
    /\ recency = <<>>
    /\ ret = NoOp
    /\ io = <<>>

NextStartup ==
    \/ \E file \in StartupFiles : \E id \in StartupUUIDs : LegacySaveAudio(file, id)
    \/ \E id \in SoundEvents : \E fileId \in StartupUUIDs : LegacySelectFile(id, fileId)
    \/ \E file \in StartupFiles : SaveAudioFile(file)
    \/ \E id \in SoundEvents : \E o \in StartupChoices : OverrideOnChange(id, o)
    \/ \E fresh \in BOOLEAN : \E reset \in BOOLEAN : Start(fresh, reset)
    \/ \E id \in SoundEvents : GetCustomSoundURL(id)

\* sessions of the plugin over a DataStore that an earlier version may have
\* written: uploads, override edits, the player, and startups
SpecStartup == InitStartup /\ [][NextStartup]_vars

\* the plugin when its modules have been evaluated and start() has not run:
\* maxCacheSizeBytes holds the 100 MB it is declared with and the persisted
\* size setting is one of the options
InitCapacity ==
    /\ audioStore = Absent
    /\ metadataStore = Absent
    /\ maxFileSizeMB \in FileSizeOptions
    /\ maxCacheSizeBytes = 100 * 1024 * 1024
    /\ dataUriCache = <<>>
    /\ currentCacheSize = 0
    /\ settings = DefaultSettings
    /\ recency = <<>>
    /\ ret = NoOp
    /\ io = <<>>

\* whether start() has run in this session
Started == ret.op # "none"

NextCapacity ==
    \/ ~Started /\ \E reset \in BOOLEAN : Start(TRUE, reset)
    \/ Started /\ \E value \in FileSizeOptions : OnChangeMaxFileSize(value)
    \/ Started /\ \E file \in ResolverFiles : SaveAudioFile(file)
    \/ Started /\ \E id \in ResolverIds : EnsureDataURICached(id)
    \/ Started /\ \E reset \in BOOLEAN : Start(TRUE, reset)

\* sessions that begin with start() and in which the size setting is changed
\* between uploads and cache loads
SpecCapacity == InitCapacity /\ [][NextCapacity]_vars

\* the override object the earlier version of the plugin kept in a slot, here
\* of an event the user had enabled
LegacyOverride ==
    [enabled |-> TRUE, url |-> "", useFile |-> FALSE, volume |-> 100,
     selectedSound |-> "original"]

\* the files uploaded in the slot specification
SlotFiles == {File(<<"a", "mp3">>, "audio/mpeg", Buffer(1, 12 * MiB), TRUE)}

SlotIds == {getBufferHashString(f.buffer) : f \in SlotFiles}

\* what a slot of settings.store can hold when the plugin reads it: nothing,
\* an object, a string of JSON (of an override, of null, of a number, of an
\* object with fields missing) or a string that is not JSON
SlotValues ==
    { [type |-> "unset"],
      [type |-> "object", value |-> LegacyOverride],
      [type |-> "object", value |-> [enabled |-> TRUE, selectedSound |-> "halloween"]],
      [type |-> "string"],
      [type |-> "string", json |-> Null],
      [type |-> "string", json |-> [number |-> 5]],
      [type |-> "string", json |-> [enabled |-> TRUE]],
      [type |-> "string", json |-> [enabled |-> TRUE, selectedSound |-> "custom"]] }
    \cup {JSONstringify([enabled |-> TRUE, selectedSound |-> "custom",
                         selectedFileId |-> id, volume |-> 100]) : id \in SlotIds}
    \cup {[type |-> "string",
           json |-> [selectedSound |-> "custom", selectedFileId |-> id]] :
              id \in SlotIds}

\* a session over a settings store written by an earlier version, by an
\* import or by hand
InitSlots ==
    /\ audioStore = Absent
    /\ metadataStore = Absent
    /\ maxFileSizeMB = DEFAULT_MAX_FILE_SIZE_MB
    /\ maxCacheSizeBytes = updateCacheLimit(DEFAULT_MAX_FILE_SIZE_MB)
    /\ dataUriCache = <<>>
    /\ currentCacheSize = 0
    /\ settings \in [SoundEvents -> SlotValues]
    /\ recency = <<>>
    /\ ret = NoOp
    /\ io = <<>>

NextSlots ==
    \/ \E file \in SlotFiles : SaveAudioFile(file)
    \/ \E id \in SlotIds : EnsureDataURICached(id)
    \/ \E id \in SoundEvents : GetCustomSoundURL(id)
    \/ \E id \in SoundEvents : IsOverriden(id)
    \/ \E id \in SoundEvents : FindOverride(id)

\* the player resolving sounds over every kind of slot value
SpecSlots == InitSlots /\ [][NextSlots]_vars

-----------------------------------------------------------------------------
(* Properties of the asset store *)

IsSave(r) == r.op \in {"saveAudioFile", "saveAudioFiles"}

\* the files of a save and their outcomes, position by position
SaveFiles(r) == IF r.op = "saveAudioFile" THEN <<r.arg>> ELSE r.arg

SaveResults(r) == IF r.op = "saveAudioFile" THEN <<r.value>> ELSE r.value

Oversized(f) == f.size > maxFileSizeMB * MiB

Valid(f) == ~Oversized(f) /\ f.readable

RowsWithId(v, id) == {k \in Keys(v) : Rows(v)[k].id = id}

\* C1 (content addressing): two successful saves of the same bytes, in one
\* batch or in two consecutive saves, return the same id; the blob table has
\* exactly one row for a returned id; and a save whose files were all saved by
\* the save before it adds no blob row and leaves the number of metadata rows
\* as it was.
C1_ContentAddressing ==
    [][IsSave(ret') =>
        LET fs == SaveFiles(ret')
            rs == SaveResults(ret')
            ps == IF IsSave(ret) THEN SaveFiles(ret) ELSE <<>>
            qs == IF IsSave(ret) THEN SaveResults(ret) ELSE <<>>
            Again(j) == \E i \in 1..Len(ps) :
                            qs[i].ok /\ ps[i].buffer = fs[j].buffer
        IN  /\ \A i, j \in 1..Len(fs) :
                   (rs[i].ok /\ rs[j].ok /\ fs[i].buffer = fs[j].buffer)
                       => rs[i].id = rs[j].id
            /\ \A i \in 1..Len(ps) : \A j \in 1..Len(fs) :
                   (qs[i].ok /\ rs[j].ok /\ ps[i].buffer = fs[j].buffer)
                       => rs[j].id = qs[i].id
            /\ \A j \in 1..Len(fs) :
                   rs[j].ok => Cardinality(RowsWithId(audioStore', rs[j].id)) = 1
            /\ (\A j \in 1..Len(fs) : rs[j].ok => Again(j))
                   => /\ Keys(audioStore') = Keys(audioStore)
                      /\ Cardinality(Keys(metadataStore'))
                             = Cardinality(Keys(metadataStore))
      ]_vars

\* C1 witness: one batch saved the same bytes twice, under two names, while
\* another asset was already stored.
C1_Witness ==
    /\ ret.op = "saveAudioFiles"
    /\ Len(ret.arg) = 2
    /\ ret.arg[1].buffer = ret.arg[2].buffer
    /\ ret.arg[1].name # ret.arg[2].name
    /\ ret.value[1].ok /\ ret.value[2].ok
    /\ Cardinality(Keys(audioStore)) = 2

\* C2 (size ceiling): a saveAudioFile of a file larger than maxFileSizeMB MiB
\* fails with the size-limit error and leaves both tables as they were.
C2_SizeCeiling ==
    [][(ret'.op = "saveAudioFile" /\ ret'.arg.size > maxFileSizeMB * MiB)
          => /\ ret'.value = TooLarge
             /\ audioStore' = audioStore
             /\ metadataStore' = metadataStore
      ]_vars

\* C2 witness: a save was refused for its size while the tables held a row.
C2_Witness ==
    /\ ret.op = "saveAudioFile"
    /\ ret.arg.size > maxFileSizeMB * MiB
    /\ ret.value = TooLarge
    /\ Keys(audioStore) # {}
    /\ Keys(metadataStore) # {}

\* C3 (batch independence): a batch of one oversized and one valid file, in
\* either order, saved into an empty store gives one error and one id, and
\* leaves exactly the valid file's row in each table.
C3_BatchIndependence ==
    [][(/\ ret'.op = "saveAudioFiles"
        /\ Len(ret'.arg) = 2
        /\ Keys(audioStore) = {}
        /\ Keys(metadataStore) = {}
        /\ \E i \in 1..2 : Oversized(ret'.arg[i]) /\ Valid(ret'.arg[3 - i]))
       => LET v == CHOOSE i \in 1..2 : Valid(ret'.arg[i])
              f == ret'.arg[v]
              id == getBufferHashString(f.buffer)
          IN  /\ Len(ret'.value) = 2
              /\ ret'.value[v] = [ok |-> TRUE, id |-> id]
              /\ ret'.value[3 - v] = TooLarge
              /\ Keys(audioStore') = {id}
              /\ Keys(metadataStore') = {id}
              /\ Rows(audioStore')[id].id = id
              /\ Rows(audioStore')[id].name = f.name
              /\ Rows(metadataStore')[id].id = id
              /\ Rows(metadataStore')[id].name = f.name
      ]_vars

\* C3 witness: a batch whose first file was refused for its size and whose
\* second file was saved, leaving one row in each table.
C3_Witness ==
    /\ ret.op = "saveAudioFiles"
    /\ Len(ret.arg) = 2
    /\ ret.value[1] = TooLarge
    /\ ret.value[2].ok
    /\ Keys(audioStore) = {ret.value[2].id}
    /\ Keys(metadataStore) = {ret.value[2].id}

\* C4 (positional outcomes): saveAudioFiles returns one outcome per input
\* file, in input order, and the outcome of a file is the one it has on its
\* own (the size error, the read error, or the digest of its bytes) whatever
\* happens to the other files of the batch.
C4_PositionalOutcomes ==
    ret.op = "saveAudioFiles" =>
        /\ Len(ret.value) = Len(ret.arg)
        /\ \A i \in 1..Len(ret.arg) :
               LET f == ret.arg[i]
               IN  ret.value[i] =
                       IF Oversized(f) THEN TooLarge
                       ELSE IF ~f.readable THEN ReadFailed
                       ELSE [ok |-> TRUE, id |-> getBufferHashString(f.buffer)]

\* C4 witness: a batch whose first file could not be read and whose second
\* file was saved.
C4_Witness ==
    /\ ret.op = "saveAudioFiles"
    /\ Len(ret.arg) = 2
    /\ ret.value[1] = ReadFailed
    /\ ret.value[2].ok
    /\ ret.value[2].id \in Keys(audioStore)

-----------------------------------------------------------------------------
(* Properties of the cache *)

PosIn(q, x) == CHOOSE i \in 1..Len(q) : q[i] = x

LastKey(m) == m[Len(m)].key

\* C5 (cache bound): whatever addToCache and getFromCache calls were made, the
\* lengths of the cached URIs add up to at most maxCacheSizeBytes.
C5_CacheBound == SumLengths(dataUriCache) <= maxCacheSizeBytes

\* C5 witness: a put had to evict an entry of an exactly accounted cache and
\* left two entries behind.
C5_Witness ==
    /\ ret.op = "addToCache"
    /\ ret.value.accepted
    /\ ret.value.evicted # {}
    /\ Len(dataUriCache) = 2
    /\ currentCacheSize = SumLengths(dataUriCache)

\* C6 (strict LRU): a getFromCache hit and an addToCache of an id leave that
\* id as the newest entry, and an entry evicted by addToCache was used less
\* recently than every entry that stays (the entry being put aside).
C6_StrictLRU ==
    [][/\ (ret'.op = "getFromCache" /\ ret'.value # Undefined)
              => LastKey(dataUriCache') = ret'.arg
       /\ (ret'.op = "addToCache" /\ ret'.value.accepted)
              => LastKey(dataUriCache') = ret'.arg.fileId
       /\ ret'.op = "addToCache"
              => \A k \in ret'.value.evicted :
                     \A j \in MapKeys(dataUriCache') \ {ret'.arg.fileId} :
                         PosIn(recency, k) < PosIn(recency, j)
      ]_vars

-----------------------------------------------------------------------------
(* Properties of the migration *)

\* C9 (startup repair): when migrateStorage returns, after starting with blob
\* rows that the metadata table lacks, every id of the blob table has a
\* metadata row with the same id.
C9_StartupRepair ==
    [][(/\ ret'.op = "migrateStorage"
        /\ ~ret'.value.threw
        /\ ~(Keys(audioStore) \subseteq Keys(metadataStore)))
       => \A id \in Keys(audioStore') :
              /\ id \in Keys(metadataStore')
              /\ Rows(metadataStore')[id].id = id
      ]_vars

\* C10 (migration idempotence): a run of migrateStorage that directly follows
\* another run leaves both tables as the first run left them and returns
\* false.
C10_MigrationIdempotent ==
    [][(ret.op = "migrateStorage" /\ ret'.op = "migrateStorage")
       => /\ audioStore' = audioStore
          /\ metadataStore' = metadataStore
          /\ ~ret'.value.threw
          /\ ret'.value.result = FALSE
      ]_vars

\* C23 (storage info): getStorageInfo reads only the metadata key; fileCount
\* is the number of metadata rows and the total size it reports is the sum of
\* the size fields of the metadata rows.
C23_StorageInfo ==
    ret.op = "getStorageInfo"
    => /\ io = <<Get(METADATA_KEY)>>
       /\ ret.value.fileCount = Cardinality(Keys(metadataStore))
       /\ ret.value.totalSizeKB = TotalSize(Rows(metadataStore))

\* C23 amended: getStorageInfo reads only the metadata key; fileCount is the
\* number of metadata rows and totalSizeKB is the sum of the size fields of
\* the metadata rows divided by 1024 and rounded to the nearest integer, a
\* half rounded up.
C23_StorageInfoAmended ==
    ret.op = "getStorageInfo"
    => /\ io = <<Get(METADATA_KEY)>>
       /\ ret.value.fileCount = Cardinality(Keys(metadataStore))
       /\ 1024 * ret.value.totalSizeKB - 512 <= TotalSize(Rows(metadataStore))
       /\ TotalSize(Rows(metadataStore)) < 1024 * ret.value.totalSizeKB + 512

\* C23 witness: storage info of a metadata table with fewer rows than the
\* blob table.
C23_Witness ==
    /\ ret.op = "getStorageInfo"
    /\ ret.value.fileCount = 1
    /\ ret.value.totalSizeKB > 0
    /\ Cardinality(Keys(audioStore)) = 2

-----------------------------------------------------------------------------
(* Properties of the resolver *)

\* C8 (deleted asset fails soft): once deleteAudio(id) has completed,
\* getCustomSoundURL returns null for every event whose override is enabled,
\* custom and selects id, also when the URI of id was cached before.
C8_DeletedAssetFailsSoft ==
    \A e \in SoundEvents :
        LET o == getOverride(settings, e)
        IN  (/\ ret.op = "deleteAudio"
             /\ o.enabled
             /\ o.selectedSound = "custom"
             /\ Field(o, "selectedFileId") = ret.arg)
            => getCustomSoundURL(dataUriCache, settings, e).value = Null

\* the override an event resolves with
OverrideOf(e) == getOverride(settings, e)

\* whether the override of e is enabled, custom and selects a file
IsCustom(e) ==
    /\ EnabledOf(OverrideOf(e)).truthy
    /\ SelectedSound(OverrideOf(e)) = "custom"
    /\ Field(OverrideOf(e), "selectedFileId") # Undefined

\* C11 (custom hit): a call of getCustomSoundURL for an event whose override is
\* enabled, custom and selects a file id that is cached under the URI u
\* returns exactly u.
C11_CustomHit ==
    [][(/\ ret'.op = "getCustomSoundURL"
        /\ IsCustom(ret'.arg)
        /\ MapHas(dataUriCache, Field(OverrideOf(ret'.arg), "selectedFileId")))
       => ret'.value = MapGet(dataUriCache,
                              Field(OverrideOf(ret'.arg), "selectedFileId"))
      ]_vars

\* C11 witness: the player resolved an enabled custom override and got the
\* URI the cache holds for its file, the URI the asset store has for it.
C11_Witness ==
    /\ ret.op = "getCustomSoundURL"
    /\ IsCustom(ret.arg)
    /\ ret.value # Null
    /\ ret.value = getAudioDataURI(audioStore,
                                   Field(OverrideOf(ret.arg), "selectedFileId"))

\* C12 (hot path without I/O): a call of getCustomSoundURL makes no DataStore
\* call and leaves both tables as they are; when the override is enabled and
\* custom and its file id is not cached, the call returns null and leaves the
\* cache and its counter as they are.
C12_HotPathNoIO ==
    [][ret'.op = "getCustomSoundURL"
       => /\ io' = <<>>
          /\ audioStore' = audioStore
          /\ metadataStore' = metadataStore
          /\ ret'.value # TypeError
          /\ (/\ IsCustom(ret'.arg)
              /\ ~MapHas(dataUriCache, Field(OverrideOf(ret'.arg), "selectedFileId")))
             => /\ ret'.value = Null
                /\ dataUriCache' = dataUriCache
                /\ currentCacheSize' = currentCacheSize
      ]_vars

\* C12 witness: the player resolved an enabled custom override whose asset is
\* in the store but not in the cache, and got null without a DataStore call.
C12_Witness ==
    /\ ret.op = "getCustomSoundURL"
    /\ IsCustom(ret.arg)
    /\ Field(OverrideOf(ret.arg), "selectedFileId") \in Keys(audioStore)
    /\ ~MapHas(dataUriCache, Field(OverrideOf(ret.arg), "selectedFileId"))
    /\ ret.value = Null
    /\ io = <<>>

\* C13 (disabled or default): a call of getCustomSoundURL for an event whose
\* override is disabled, or whose selectedSound is "default", returns null,
\* whatever the selectedFileId, the volume, the cache and the seasonal table.
C13_DisabledOrDefault ==
    ret.op = "getCustomSoundURL"
    => ((\/ ~EnabledOf(OverrideOf(ret.arg)).truthy
         \/ SelectedSound(OverrideOf(ret.arg)) = "default")
        => ret.value = Null)

\* C13 witness: the player got null for a disabled custom override whose file
\* is in the cache.
C13_Witness ==
    /\ ret.op = "getCustomSoundURL"
    /\ ~EnabledOf(OverrideOf(ret.arg)).truthy
    /\ SelectedSound(OverrideOf(ret.arg)) = "custom"
    /\ MapHas(dataUriCache, Field(OverrideOf(ret.arg), "selectedFileId"))
    /\ ret.value = Null

\* the player got null for an enabled override that selects "default" and
\* still names a cached file, and for a disabled seasonal override
C13_DefaultReached ==
    /\ ret.op = "getCustomSoundURL"
    /\ EnabledOf(OverrideOf(ret.arg)).truthy
    /\ SelectedSound(OverrideOf(ret.arg)) = "default"
    /\ MapHas(dataUriCache, Field(OverrideOf(ret.arg), "selectedFileId"))
    /\ \E e \in SoundEvents : /\ ~EnabledOf(OverrideOf(e)).truthy
                              /\ SelectedSound(OverrideOf(e)) = "halloween"

\* the seasonal ids of the catalog entry of e, none when e has no entry
SeasonalIdsOf(e) ==
    UNION {{SOUND_TYPES[i].seasonal[j] : j \in 1..Len(SOUND_TYPES[i].seasonal)} :
              i \in {k \in 1..Len(SOUND_TYPES) : SOUND_TYPES[k].id = e}}

\* C14 (seasonal resolution): a call of getCustomSoundURL for an event whose
\* override is enabled and selects neither "default" nor "custom" returns the
\* entry of the seasonal table keyed by the selected value when there is one;
\* otherwise the table entry of the seasonal id of the event's catalog entry
\* that starts with the selected value and "_"; and null when neither exists.
\* For "halloween" on user_join that is the entry of "halloween_user_join".
C14_Seasonal ==
    (/\ ret.op = "getCustomSoundURL"
     /\ EnabledOf(OverrideOf(ret.arg)).truthy
     /\ SelectedSound(OverrideOf(ret.arg)) \notin {"default", "custom"})
    => LET selectedSound == SelectedSound(OverrideOf(ret.arg))
           prefixed == {x \in SeasonalIdsOf(ret.arg) :
                           StartsWithKey(x, selectedSound)}
       IN  /\ selectedSound \in DOMAIN SEASONAL_SOUNDS
              => ret.value = SEASONAL_SOUNDS[selectedSound]
           /\ (selectedSound \notin DOMAIN SEASONAL_SOUNDS /\ prefixed # {})
              => \E x \in prefixed : /\ x \in DOMAIN SEASONAL_SOUNDS
                                     /\ ret.value = SEASONAL_SOUNDS[x]
           /\ (selectedSound \notin DOMAIN SEASONAL_SOUNDS /\ prefixed = {})
              => ret.value = Null
           /\ (ret.arg = "user_join" /\ selectedSound = "halloween")
              => ret.value = SEASONAL_SOUNDS["halloween_user_join"]

\* C14 witness: "halloween" on user_join resolved to the table entry of
\* halloween_user_join, while the other event holds an override that selects
\* a literal seasonal id.
C14_Witness ==
    /\ ret.op = "getCustomSoundURL"
    /\ ret.arg = "user_join"
    /\ EnabledOf(OverrideOf(ret.arg)).truthy
    /\ SelectedSound(OverrideOf(ret.arg)) = "halloween"
    /\ ret.value = SEASONAL_SOUNDS["halloween_user_join"]
    /\ SelectedSound(OverrideOf("message3")) = "winter_user_join"

\* the literal seasonal id resolved on an event without seasonal ids
C14_LiteralReached ==
    /\ ret.op = "getCustomSoundURL"
    /\ ret.arg = "message3"
    /\ SelectedSound(OverrideOf(ret.arg)) = "winter_user_join"
    /\ ret.value = SEASONAL_SOUNDS["winter_user_join"]

\* a variant key resolved to null: the event has no seasonal id for it
C14_NullReached ==
    /\ ret.op = "getCustomSoundURL"
    /\ EnabledOf(OverrideOf(ret.arg)).truthy
    /\ \/ ret.arg = "message3" /\ SelectedSound(OverrideOf(ret.arg)) = "halloween"
       \/ ret.arg = "user_join" /\ SelectedSound(OverrideOf(ret.arg)) = "spring"
    /\ ret.value = Null

\* C15 (resolution never raises): whatever a slot holds (nothing, an object,
\* JSON of an override, a string that is not JSON, JSON of null or of a
\* number, an override with fields missing), getCustomSoundURL, findOverride
\* and isOverriden return a value and do not throw.
C15_NeverThrows ==
    /\ ret.op = "getCustomSoundURL" => ret.value # TypeError
    /\ ret.op \in {"isOverriden", "findOverride"} => ~ret.value.threw
    /\ \A e \in SoundEvents :
           /\ ~getCustomSoundURL(dataUriCache, settings, e).threw
           /\ ~findOverride(settings, e).threw
           /\ ~isOverriden(settings, e).threw

\* C15 witness: findOverride returned null for a slot holding the JSON of
\* null, while the other slot holds a string that is not JSON.
C15_Witness ==
    /\ ret.op = "findOverride"
    /\ settings[ret.arg] = [type |-> "string", json |-> Null]
    /\ ~ret.value.threw
    /\ ret.value.value = Null
    /\ \E e \in SoundEvents : settings[e] = [type |-> "string"]

\* getCustomSoundURL returned the cached URI for a slot holding the JSON of an
\* override, and null for an enabled override without selectedSound
C15_FieldsMissingReached ==
    /\ ret.op = "getCustomSoundURL"
    /\ settings[ret.arg] = [type |-> "string", json |-> [enabled |-> TRUE]]
    /\ ret.value = Null
    /\ \E e \in SoundEvents :
           /\ IsCustom(e)
           /\ MapHas(dataUriCache, Field(OverrideOf(e), "selectedFileId"))

-----------------------------------------------------------------------------
(* Properties of deletes and of repeated saves *)

\* C17 (delete): deleteAudio(id) completes without an error; it removes the
\* row of id from each table that has one and leaves every other row as it
\* was; a table without a row of id is left unchanged, so a second delete of
\* the same id right after the first changes nothing.
C17_Delete ==
    [][ret'.op = "deleteAudio"
       => /\ ret'.value.ok
          /\ Keys(audioStore') = Keys(audioStore) \ {ret'.arg}
          /\ Keys(metadataStore') = Keys(metadataStore) \ {ret'.arg}
          /\ \A k \in Keys(audioStore') :
                 Rows(audioStore')[k] = Rows(audioStore)[k]
          /\ \A k \in Keys(metadataStore') :
                 Rows(metadataStore')[k] = Rows(metadataStore)[k]
          /\ ret'.arg \notin Keys(audioStore) => audioStore' = audioStore
          /\ ret'.arg \notin Keys(metadataStore) => metadataStore' = metadataStore
          /\ (ret.op = "deleteAudio" /\ ret.arg = ret'.arg)
             => /\ audioStore' = audioStore
                /\ metadataStore' = metadataStore
      ]_vars

\* C17 witness: a delete found the row of its id in both tables and wrote
\* both back without it, while other rows stay.
C17_Witness ==
    /\ ret.op = "deleteAudio"
    /\ io = <<Get(STORAGE_KEY), Set(STORAGE_KEY),
              Get(METADATA_KEY), Set(METADATA_KEY)>>
    /\ ret.arg \notin Keys(audioStore) \cup Keys(metadataStore)
    /\ Keys(audioStore) # {}
    /\ Keys(metadataStore) = Keys(audioStore)

\* a delete of an id without a row wrote nothing
C17_AbsentReached ==
    /\ ret.op = "deleteAudio"
    /\ io = <<Get(STORAGE_KEY), Get(METADATA_KEY)>>
    /\ audioStore = Absent

\* C20 (save of an existing id is a no-op): a save of a valid file whose id
\* already has a blob row returns that id and leaves the blob row and the
\* metadata row of the id as they were, also when the file has another name or
\* MIME type than the one saved first.
C20_ResaveNoOp ==
    [][IsSave(ret') =>
        \A i \in 1..Len(SaveFiles(ret')) :
            LET file == SaveFiles(ret')[i]
                id == getBufferHashString(file.buffer)
            IN  (Valid(file) /\ id \in Keys(audioStore))
                => /\ SaveResults(ret')[i] = [ok |-> TRUE, id |-> id]
                   /\ Rows(audioStore')[id] = Rows(audioStore)[id]
                   /\ id \in Keys(metadataStore)
                      => Rows(metadataStore')[id] = Rows(metadataStore)[id]
      ]_vars

\* C18 (bulk clear): when "Remove All" has completed, both tables are empty,
\* the cache has no entry, its size counter is 0, and every event with a
\* custom override resolves to null; and while both tables and the cache are
\* empty, no step other than an upload puts a URI into the cache, so none of
\* the removed assets is served before a new upload.
C18_BulkClear ==
    [][/\ ret'.op = "removeAll"
          => /\ audioStore' = Present(EmptyTable)
             /\ metadataStore' = Present(EmptyTable)
             /\ dataUriCache' = <<>>
             /\ currentCacheSize' = 0
             /\ \A e \in SoundEvents :
                    SelectedSound(getOverride(settings', e)) = "custom"
                    => getCustomSoundURL(dataUriCache', settings', e).value = Null
       /\ (/\ Keys(audioStore) = {}
           /\ Keys(metadataStore) = {}
           /\ dataUriCache = <<>>
           /\ ~IsSave(ret'))
          => /\ Keys(audioStore') = {}
             /\ dataUriCache' = <<>>
             /\ \A e \in SoundEvents :
                    SelectedSound(getOverride(settings', e)) = "custom"
                    => getCustomSoundURL(dataUriCache', settings', e).value = Null
      ]_vars

\* C18 witness: "Remove All" removed rows and cached URIs, and an enabled
\* custom override is left without its file.
C18_Witness ==
    /\ ret.op = "removeAll"
    /\ ret.value.removed # {}
    /\ ret.value.cached # {}
    /\ dataUriCache = <<>>
    /\ \E e \in SoundEvents :
           /\ EnabledOf(OverrideOf(e)).truthy
           /\ SelectedSound(OverrideOf(e)) = "custom"
           /\ getCustomSoundURL(dataUriCache, settings, e).value = Null

\* after "Remove All" an override edit named a removed file again, and the
\* player still got null
C18_AfterClearReached ==
    /\ ret.op = "getCustomSoundURL"
    /\ IsCustom(ret.arg)
    /\ audioStore = Present(EmptyTable)
    /\ ret.value = Null

-----------------------------------------------------------------------------
(* Properties of loading into the cache *)

\* C19 (ensureDataURICached): on a cache hit the call returns the cached URI
\* and makes no DataStore call; on a miss it reads the blob table and, when the
\* table has the asset, puts its URI in the cache and returns it; when the
\* table has no such id or the read is rejected, it returns null and leaves
\* the cache unchanged; it never raises.
C19_Ensure ==
    [][/\ ret'.op = "ensureDataURICached"
          => LET fileId == ret'.arg
                 dataUri == getAudioDataURI(audioStore, fileId)
             IN  /\ MapHas(dataUriCache, fileId)
                    => /\ ret'.value = MapGet(dataUriCache, fileId)
                       /\ io' = <<>>
                 /\ (~MapHas(dataUriCache, fileId) /\ dataUri # Undefined)
                    => /\ io' = <<Get(STORAGE_KEY)>>
                       /\ MapGet(dataUriCache', fileId) = dataUri
                       /\ ret'.value = dataUri
                 /\ (~MapHas(dataUriCache, fileId) /\ dataUri = Undefined)
                    => /\ io' = <<Get(STORAGE_KEY)>>
                       /\ ret'.value = Null
                       /\ dataUriCache' = dataUriCache
                       /\ currentCacheSize' = currentCacheSize
       /\ ret'.op = "ensureDataURICached, read rejected"
          => /\ ret'.value = Null
             /\ dataUriCache' = dataUriCache
             /\ currentCacheSize' = currentCacheSize
      ]_vars

\* C19 amended: as C19, but on a miss the URI of the asset is put in the cache
\* only when it is no longer than maxCacheSizeBytes; a longer URI is returned
\* and the cache is left unchanged.
C19_EnsureAmended ==
    [][/\ ret'.op = "ensureDataURICached"
          => LET fileId == ret'.arg
                 dataUri == getAudioDataURI(audioStore, fileId)
             IN  /\ MapHas(dataUriCache, fileId)
                    => /\ ret'.value = MapGet(dataUriCache, fileId)
                       /\ io' = <<>>
                 /\ (~MapHas(dataUriCache, fileId) /\ dataUri # Undefined)
                    => /\ io' = <<Get(STORAGE_KEY)>>
                       /\ ret'.value = dataUri
                       /\ dataUri.length <= maxCacheSizeBytes
                          => MapGet(dataUriCache', fileId) = dataUri
                       /\ dataUri.length > maxCacheSizeBytes
                          => /\ dataUriCache' = dataUriCache
                             /\ currentCacheSize' = currentCacheSize
                 /\ (~MapHas(dataUriCache, fileId) /\ dataUri = Undefined)
                    => /\ io' = <<Get(STORAGE_KEY)>>
                       /\ ret'.value = Null
                       /\ dataUriCache' = dataUriCache
                       /\ currentCacheSize' = currentCacheSize
       /\ ret'.op = "ensureDataURICached, read rejected"
          => /\ ret'.value = Null
             /\ dataUriCache' = dataUriCache
             /\ currentCacheSize' = currentCacheSize
      ]_vars

\* C19 witness: a load returned the URI of an asset of the store that is
\* longer than the capacity of the cache, and the cache does not hold it.
C19_Witness ==
    /\ ret.op = "ensureDataURICached"
    /\ io = <<Get(STORAGE_KEY)>>
    /\ ret.value # Null
    /\ ret.value = getAudioDataURI(audioStore, ret.arg)
    /\ ret.value.length > maxCacheSizeBytes
    /\ ~MapHas(dataUriCache, ret.arg)
    /\ dataUriCache # <<>>

\* a load put the URI of an asset into the cache, next to another one
C19_LoadReached ==
    /\ ret.op = "ensureDataURICached"
    /\ io = <<Get(STORAGE_KEY)>>
    /\ MapHas(dataUriCache, ret.arg)
    /\ ret.value = MapGet(dataUriCache, ret.arg)
    /\ Len(dataUriCache) >= 2

\* a hit returned the URI of an asset that is no longer in the store
C19_HitReached ==
    /\ ret.op = "ensureDataURICached"
    /\ io = <<>>
    /\ ret.value # Null
    /\ ret.arg \notin Keys(audioStore)

-----------------------------------------------------------------------------
(* Properties of startup *)

\* C16 (startup is never fatal): no error leaves start(), also when the
\* migration or the seasonal reset throws; a start that caught an error
\* leaves both tables as they were and the plugin in working order: the cache
\* capacity is set from the size setting, the cache is within it, and the
\* resolver answers every event without throwing.
C16_StartupNeverFatal ==
    [][ret'.op = "start"
       => /\ ~ret'.value.propagated
          /\ maxCacheSizeBytes' = updateCacheLimit(maxFileSizeMB')
          /\ ret'.value.caught
             => /\ audioStore' = audioStore
                /\ metadataStore' = metadataStore
                /\ SumLengths(dataUriCache') <= maxCacheSizeBytes'
                /\ \A e \in SoundEvents :
                       ~getCustomSoundURL(dataUriCache', settings', e).threw
      ]_vars

\* C16 witness: a start in a restarted client caught the error of the
\* migration; an enabled custom override selects an asset that is in the
\* store with its URI and that was not loaded into the cache.
C16_Witness ==
    /\ ret.op = "start"
    /\ ret.arg.fresh
    /\ ret.value.caught
    /\ ~ret.value.propagated
    /\ \E e \in SoundEvents :
           /\ IsCustom(e)
           /\ getAudioDataURI(audioStore, Field(OverrideOf(e), "selectedFileId"))
                  # Undefined
           /\ ~MapHas(dataUriCache, Field(OverrideOf(e), "selectedFileId"))

\* a start caught the TypeError of the seasonal reset
C16_ResetThrowReached ==
    /\ ret.op = "start"
    /\ ret.value.caught
    /\ io = <<>>
    /\ audioStore # Absent

\* a start without an error preloaded the asset of a custom override
C16_PreloadReached ==
    /\ ret.op = "start"
    /\ ret.arg.fresh
    /\ ~ret.value.caught
    /\ \E e \in SoundEvents :
           /\ IsCustom(e)
           /\ MapHas(dataUriCache, Field(OverrideOf(e), "selectedFileId"))

\* whether an override is in a seasonal state: it selects neither "default"
\* nor "custom"
IsSeasonalState(override) ==
    /\ "selectedSound" \in DOMAIN override
    /\ override.selectedSound \notin {"default", "custom"}

\* C21 (startup seasonal reset): a start() with resetSeasonalOnStartup leaves
\* every override that was in a seasonal state, enabled or not, with
\* selectedSound "default"; a start() without it changes no override; and no
\* step other than a start() or an edit by the user changes an override.
C21_SeasonalReset ==
    [][/\ (ret'.op = "start" /\ ret'.arg.resetSeasonalOnStartup)
          => \A e \in SoundEvents :
                 IsSeasonalState(getOverride(settings, e))
                 => SelectedSound(getOverride(settings', e)) = "default"
       /\ (ret'.op = "start" /\ ~ret'.arg.resetSeasonalOnStartup)
          => settings' = settings
       /\ ret'.op \notin {"start", "override.onChange", "legacy select file"}
          => settings' = settings
      ]_vars

-----------------------------------------------------------------------------
(* Properties of import and export *)

\* C22 (import restores overrides only): handling an imported settings file
\* makes no DataStore call and leaves both tables, the cache and its counter
\* as they are; an exported payload holds the overrides and a note, and every
\* exported override has no field other than id, enabled, selectedSound,
\* selectedFileId and volume.
C22_ImportExport ==
    [][/\ ret'.op = "handleSettingsUpload"
          => /\ io' = <<>>
             /\ audioStore' = audioStore
             /\ metadataStore' = metadataStore
             /\ dataUriCache' = dataUriCache
             /\ currentCacheSize' = currentCacheSize
       /\ (ret'.op = "downloadSettings" /\ ~ret'.value.threw)
          => LET exportPayload == ret'.value.exportPayload
             IN  /\ DOMAIN exportPayload = {"overrides", "__note"}
                 /\ \A i \in 1..Len(exportPayload.overrides) :
                        DOMAIN exportPayload.overrides[i] \subseteq
                            {"id", "enabled", "selectedSound", "selectedFileId",
                             "volume"}
      ]_vars

\* C22 witness: an import stored an enabled custom override whose asset is in
\* the store, while the cache holds a URI and both tables have their row.
C22_Witness ==
    /\ ret.op = "handleSettingsUpload"
    /\ ret.value.ok
    /\ \E e \in SoundEvents : IsCustom(e)
    /\ dataUriCache # <<>>
    /\ Keys(audioStore) # {}
    /\ Keys(metadataStore) = Keys(audioStore)

\* an export wrote the override of an event that selects a file
C22_ExportReached ==
    /\ ret.op = "downloadSettings"
    /\ ~ret.value.threw
    /\ Len(ret.value.exportPayload.overrides) = 2
    /\ "selectedFileId" \in DOMAIN ret.value.exportPayload.overrides[1]

\* an import stopped at an element that is null, after it stored the one before
C22_ImportThrowReached ==
    /\ ret.op = "handleSettingsUpload"
    /\ ~ret.value.ok
    /\ SelectedSound(OverrideOf("message3")) = "halloween"

\* C24 (volume): for an event with an enabled override, the percentage the
\* player applies is override.volume when that is an integer from 0 to 100,
\* and 100 when the volume is missing, below 0 or above 100.
C24_VolumeClamped ==
    (ret.op = "player volume" /\ EnabledOf(OverrideOf(ret.arg)).truthy)
    => IF /\ "volume" \in DOMAIN OverrideOf(ret.arg)
          /\ OverrideOf(ret.arg).volume \in 0..100
       THEN ret.value.percent = OverrideOf(ret.arg).volume
       ELSE ret.value.percent = 100

\* the rows of the blob table that the detection test of the migration takes
\* for rows of the earlier format
LegacyKeys(v) == {k \in Keys(v) : IsLegacyRow(Rows(v)[k])}

\* C25 (legacy rewrite): after a run of migrateStorage on a blob table with a
\* legacy row, every blob row is keyed by the hash of its bytes, carries a
\* dataUri and no buffer, no row is left under a legacy id, and the metadata
\* table has one row per blob.
C25_LegacyRewrite ==
    [][(ret'.op = "migrateStorage" /\ LegacyKeys(audioStore) # {})
       => /\ \A k \in Keys(audioStore') :
                 /\ ~isUUIDLike(k)
                 /\ Rows(audioStore')[k].id = k
                 /\ "dataUri" \in DOMAIN Rows(audioStore')[k]
                 /\ "buffer" \notin DOMAIN Rows(audioStore')[k]
          /\ Keys(audioStore') \cap LegacyKeys(audioStore) = {}
          /\ \A k \in LegacyKeys(audioStore) :
                 "buffer" \in DOMAIN Rows(audioStore)[k]
                 => getBufferHashString(Rows(audioStore)[k].buffer)
                        \in Keys(audioStore')
          /\ metadataStore' # Absent
          /\ Keys(metadataStore') = Keys(audioStore')
      ]_vars

\* C26 (best-effort migration): a run of migrateStorage on a blob table with
\* legacy rows completes without throwing, whether or not some row fails to
\* convert, and the blob table it leaves holds the converted row of every
\* legacy row that has a buffer.
C26_BestEffort ==
    [][(ret'.op = "migrateStorage" /\ LegacyKeys(audioStore) # {})
       => /\ ~ret'.value.threw
          /\ \A k \in LegacyKeys(audioStore) :
                 "buffer" \in DOMAIN Rows(audioStore)[k]
                 => LET file == Rows(audioStore)[k]
                        new_id == getBufferHashString(file.buffer)
                    IN  /\ new_id \in Keys(audioStore')
                        /\ Rows(audioStore')[new_id].dataUri
                               = generateDataURI(file.buffer, file.type, file.name)
      ]_vars

\* C27 (metadata rebuild when absent): a run of migrateStorage on a non-empty
\* blob table in the current format with the metadata table absent writes a
\* metadata table with the key set of the blob table, each row with the id,
\* name, type of the blob and the length of its dataUri as size, leaves the
\* blob table as it is and returns true; with the blob table absent it
\* returns false and writes nothing.
C27_MetadataRebuild ==
    [][ret'.op = "migrateStorage"
       => /\ (/\ audioStore # Absent
              /\ Keys(audioStore) # {}
              /\ LegacyKeys(audioStore) = {}
              /\ metadataStore = Absent)
             => /\ ~ret'.value.threw
                /\ ret'.value.result = TRUE
                /\ audioStore' = audioStore
                /\ metadataStore' # Absent
                /\ Keys(metadataStore') = Keys(audioStore)
                /\ \A k \in Keys(audioStore) :
                       Rows(metadataStore')[k]
                           = [id |-> Rows(audioStore)[k].id,
                              name |-> Rows(audioStore)[k].name,
                              type |-> Rows(audioStore)[k].type,
                              size |-> Rows(audioStore)[k].dataUri.length]
          /\ audioStore = Absent
             => /\ ~ret'.value.threw
                /\ ret'.value.result = FALSE
                /\ UNCHANGED storeVars
                /\ \A i \in 1..Len(io') : io'[i].call = "get"
      ]_vars

\* a migration has rebuilt the metadata table of a blob table in the current
\* format without rewriting the blob table
C27_Witness ==
    /\ ret.op = "migrateStorage"
    /\ ret.value.result = TRUE
    /\ io = <<Get(STORAGE_KEY), Get(METADATA_KEY), Get(STORAGE_KEY), Set(METADATA_KEY)>>
    /\ Keys(audioStore) # {}
    /\ Keys(metadataStore) = Keys(audioStore)

\* a migration has found the blob table absent
C27_AbsentReached ==
    /\ ret.op = "migrateStorage"
    /\ ret.value.result = FALSE
    /\ audioStore = Absent
    /\ io = <<Get(STORAGE_KEY)>>

\* C29 (single read-modify-write per batch): whatever the length of the batch
\* and the outcomes of its files, saveAudioFiles makes four DataStore calls:
\* it reads the blob table and the metadata table once each, then writes
\* each once, and the tables written hold the row of every file of the batch
\* that was processed, so no write lies before the last file.
C29_SingleReadModifyWrite ==
    [][ret'.op = "saveAudioFiles"
       => /\ io' = <<Get(STORAGE_KEY), Get(METADATA_KEY),
                     Set(STORAGE_KEY), Set(METADATA_KEY)>>
          /\ \A i \in 1..Len(ret'.value) :
                 ret'.value[i].ok
                 => /\ ret'.value[i].id \in Keys(audioStore')
                    /\ ret'.value[i].id \in Keys(metadataStore')
          /\ \A k \in Keys(audioStore) : k \in Keys(audioStore')
          /\ \A k \in Keys(metadataStore) : k \in Keys(metadataStore')
      ]_vars

\* C29 witness: a batch of two files that were both saved, under different
\* ids, with four DataStore calls.
C29_Witness ==
    /\ ret.op = "saveAudioFiles"
    /\ Len(ret.arg) = 2
    /\ ret.value[1].ok
    /\ ret.value[2].ok
    /\ ret.value[1].id # ret.value[2].id
    /\ Len(io) = 4

\* a batch without a file and a batch whose files all failed
C29_EmptyReached ==
    /\ ret.op = "saveAudioFiles"
    /\ \/ Len(ret.arg) = 0
       \/ Len(ret.arg) = 2 /\ ~ret.value[1].ok /\ ~ret.value[2].ok
    /\ Len(io) = 4

\* C28 (write order of save): at every point of a save, between its two
\* writes and after a stop there, every id of the metadata table is an id of
\* the blob table, and between the writes the rows of the save are already in
\* the blob table.
C28_WriteOrder ==
    /\ Keys(metadataStore) \subseteq Keys(audioStore)
    /\ ret.op = "saveAudioFile, blob written" => ret.value.id \in Keys(audioStore)
    /\ ret.op = "saveAudioFiles, blob written"
       => Keys(Present(ret.value.metadata)) \subseteq Keys(audioStore)

\* C28 witness: a save has written its blob row and not yet its metadata row.
C28_Witness ==
    /\ ret.op \in BetweenWrites
    /\ Keys(audioStore) \ Keys(metadataStore) # {}
    /\ Keys(metadataStore) # {}

\* a save was stopped between its writes and left a blob without metadata
C28_StopReached ==
    /\ ret.op = "session ended"
    /\ Keys(audioStore) \ Keys(metadataStore) # {}

\* C30 (eviction is minimal): an addToCache of a URI that fits the capacity
\* leaves the new entry in the cache; it evicts nothing when the URI fits next
\* to the URIs held; the entries it evicts were used less recently than every
\* entry it keeps; and it evicts no more than needed: the last entry evicted
\* and the entries behind it did not leave room for the URI.
C30_MinimalEviction ==
    [][(ret'.op = "addToCache" /\ ret'.value.accepted)
       => LET uriSize == ret'.arg.dataUri.length
              n == Cardinality(ret'.value.evicted)
          IN  /\ MapGet(dataUriCache', ret'.arg.fileId) = ret'.arg.dataUri
              /\ SumLengths(dataUriCache) + uriSize <= maxCacheSizeBytes
                     => ret'.value.evicted = {}
              /\ \A k \in ret'.value.evicted :
                     \A j \in MapKeys(dataUriCache') \ {ret'.arg.fileId} :
                         PosIn(recency, k) < PosIn(recency, j)
              /\ n > 0
                     => SumLengths(SubSeq(dataUriCache, n, Len(dataUriCache)))
                            + uriSize > maxCacheSizeBytes
      ]_vars

-----------------------------------------------------------------------------
(* Properties of the cache capacity *)

Clamp(x, lo, hi) == IF x < lo THEN lo ELSE IF x > hi THEN hi ELSE x

\* round(mb * 1.37 * 5) clamped to 5..500, in bytes
ClaimedCapacity(mb) == Clamp((mb * 685 * 2 + 100) \div 200, 5, 500) * MiB

\* C31 (cache capacity): once start() has run, and after every change of the
\* size setting, maxCacheSizeBytes is clamp(round(maxFileSizeMB * 1.37 * 5),
\* 5, 500) MiB of the size ceiling in force; it lies between 5 MiB and 500 MiB
\* and does not decrease from one option to a larger one.
C31_CacheCapacity ==
    Started
    => /\ maxFileSizeMB \in FileSizeOptions
       /\ maxCacheSizeBytes = ClaimedCapacity(maxFileSizeMB)
       /\ maxCacheSizeBytes >= 5 * MiB
       /\ maxCacheSizeBytes <= 500 * MiB
       /\ \A smaller \in FileSizeOptions :
              smaller <= maxFileSizeMB
              => ClaimedCapacity(smaller) <= maxCacheSizeBytes

\* C31 witness: the size setting was changed to 100 MB, where the upper clamp
\* applies.
C31_Witness ==
    /\ ret.op = "maxFileSize.onChange"
    /\ ret.arg = 100
    /\ maxFileSizeMB = 100
    /\ maxCacheSizeBytes = 500 * MiB

\* a start() has replaced the initial capacity by that of the persisted
\* setting
C31_StartReached ==
    /\ ret.op = "start"
    /\ maxFileSizeMB = 30
    /\ maxCacheSizeBytes = 206 * MiB

\* C32 (size accounting is exact): in every state, also after two
\* ensureDataURICached calls of one id that both missed and both inserted,
\* currentCacheSize is the sum of the lengths of the URIs held in
\* dataUriCache.
C32_ExactAccounting == currentCacheSize = SumLengths(dataUriCache)

\* C33 (cache bound survives a capacity change): right after a change of the
\* size setting that lowers maxCacheSizeBytes, and after every lookup that
\* follows it before the next put, the lengths of the cached URIs add up to
\* at most the new maxCacheSizeBytes.
C33_BoundAfterLowering ==
    [][/\ (ret'.op = "maxFileSize.onChange" /\ maxCacheSizeBytes' < maxCacheSizeBytes)
          => SumLengths(dataUriCache') <= maxCacheSizeBytes'
       /\ (ret'.op = "getFromCache" /\ SumLengths(dataUriCache) <= maxCacheSizeBytes)
          => SumLengths(dataUriCache') <= maxCacheSizeBytes'
      ]_vars

-----------------------------------------------------------------------------
(* Properties of interleaved store operations *)

\* the ids a finished batch saved itself
BatchSaved(r) == {r.value.results[i].id : i \in {j \in 1..Len(r.value.results) :
                                                     r.value.results[j].ok}}

\* C34 (no lost update across a batch): after the final writes of a batch,
\* an asset saved by a saveAudioFile that ran during the batch is in both
\* tables, and an asset deleted by a deleteAudio that ran during the batch,
\* and which the batch did not save itself, is in neither.
C34_NoLostUpdate ==
    ret.op = "saveAudioFiles, tables written"
    => \A i \in 1..Len(ret.value.during) :
           LET e == ret.value.during[i]
           IN  /\ e.op = "saveAudioFile"
                  => e.id \in Keys(audioStore) /\ e.id \in Keys(metadataStore)
               /\ (e.op = "deleteAudio" /\ e.id \notin BatchSaved(ret))
                  => e.id \notin Keys(audioStore) /\ e.id \notin Keys(metadataStore)

\* C35 (table agreement under interleaving): once a saveAudioFile of bytes
\* with id x and a deleteAudio(x) whose DataStore calls interleaved have both
\* completed, x has a row in both tables or in neither.
C35_TablesAgree ==
    (/\ ret.op = "saveAudioFile and deleteAudio"
     /\ ret.value.save.pc = "done"
     /\ ret.value.delete.pc = "done")
    => (ret.value.id \in Keys(audioStore) <=> ret.value.id \in Keys(metadataStore))

\* C36 (sequential table agreement): after any sequence of saves, batches,
\* deletes and clears that each run to completion, the two tables have the
\* same ids, and the metadata row of an id has the id, name and type of its
\* blob row and the length of the blob's dataUri as size.
C36_SequentialAgreement ==
    /\ Keys(metadataStore) = Keys(audioStore)
    /\ \A k \in Keys(audioStore) :
           LET blob == Rows(audioStore)[k]
               meta == Rows(metadataStore)[k]
           IN  /\ meta.id = blob.id
               /\ meta.name = blob.name
               /\ meta.type = blob.type
               /\ meta.size = blob.dataUri.length

\* C36 witness: a delete has left two rows in each table, after saves of
\* three files.
C36_Witness ==
    /\ ret.op = "deleteAudio"
    /\ ret.arg \notin Keys(audioStore)
    /\ Cardinality(Keys(audioStore)) = 2
    /\ Cardinality(Keys(metadataStore)) = 2

\* a file was saved over a row of the same bytes under another name
C36_ResaveReached ==
    /\ ret.op = "saveAudioFile"
    /\ ret.value.ok
    /\ ret.arg.name = <<"b", "OGG">>
    /\ Rows(metadataStore)[ret.value.id].name = <<"b", "OGG">>
    /\ Cardinality(Keys(audioStore)) = 2

-----------------------------------------------------------------------------
(* Properties of the preloading and of override references *)

\* the file id the override of e selects
SelectedFileId(e) == Field(OverrideOf(e), "selectedFileId")

\* C37 (preload completeness): when start() has completed, every event whose
\* override is enabled and custom and selects an asset that is in the store
\* resolves through getCustomSoundURL to the URI of that asset, also when the
\* store needed a migration at this start.
C37_PreloadComplete ==
    ret.op = "start"
    => \A e \in SoundEvents :
           (/\ IsCustom(e)
            /\ getAudioDataURI(audioStore, SelectedFileId(e)) # Undefined)
           => getCustomSoundURL(dataUriCache, settings, e).value
                  = getAudioDataURI(audioStore, SelectedFileId(e))

-----------------------------------------------------------------------------
(* Properties of the import of a settings file *)

\* C39 (failed import changes nothing): when an imported file is malformed
\* JSON or holds no overrides array, every event has the same stored override
\* after the import as before it.
C39_FailedImportChangesNothing ==
    [][(/\ ret'.op = "handleSettingsUpload"
        /\ \/ ret'.arg.type = "malformed"
           \/ "overrides" \notin DOMAIN ret'.arg.value)
       => \A e \in SoundEvents :
              getOverride(settings', e) = getOverride(settings, e)
      ]_vars

\* C40 (import writes only override slots): an import changes no slot of the
\* settings store other than those of the sound events of the catalog, and
\* adds none.
C40_OnlyOverrideSlots ==
    [][ret'.op = "handleSettingsUpload"
       => /\ DOMAIN settings' \ SoundEvents = DOMAIN settings \ SoundEvents
          /\ \A k \in DOMAIN settings \ SoundEvents : settings'[k] = settings[k]
      ]_vars

====
